---- MODULE Spec2Model ----
(***************************************************************************)
(* Retevis RT21 family clone driver (chirp/drivers/retevis_rt21.py):       *)
(* the serial handshake, the block download / upload engine and the        *)
(* channel codec working on the memory image.                              *)
(*                                                                         *)
(* Bytes are naturals 0..255; a string of the driver is a sequence of      *)
(* bytes; offset a of an image is element a + 1 of the sequence.           *)
(***************************************************************************)
EXTENDS Integers, Sequences, FiniteSets, TLC

VARIABLES
    model,      \* the radio class in use (its MODEL attribute)
    seed,       \* selects the contents of the local image and of the device
    mmap,       \* radio._mmap, the Memory Image held by the radio object
    pc,         \* position of the running clone operation
    op,         \* "none", "sync_in" or "sync_out"
    idx,        \* index of the next block address of the transfer loop
    data,       \* do_download's local string `data`
    sent,       \* every frame handed to serial.write so far, summarised
    lastIO,     \* serial writes and reads made by the last step, in order
    lastAct,    \* which step ran last
    status,     \* the last progress report handed to status_fn
    entered,    \* _enter_programming_mode returned normally
    raised,     \* exception leaving do_download / do_upload ("none" if none)
    result,     \* what the caller of sync_in / sync_out observed
    arg,        \* the Memory handed to the last set_memory call
    got         \* the Memory returned by the last get_memory call

vars == <<model, seed, mmap, pc, op, idx, data, sent, lastIO, lastAct,
          status, entered, raised, result, arg, got>>

xferVars == <<pc, op, idx, data, sent, lastIO, status, entered, raised, result>>
codecVars == <<arg, got>>

---------------------------------------------------------------------------
(* Bounds of the model *)

\* number of distinct device / image contents tried
NumSeeds == 2

---------------------------------------------------------------------------
(* Program constants *)

CMD_ACK == 6

\* for i in range(0, 5)
MaxTries == 5

\* serial.write("\x02")
IDENT_REQ == 2

\* ord('E'), ord('R'), ord('W')
CH_E == 69
CH_R == 82
CH_W == 87

Models == {"RT21", "RB17A", "RB26", "RT76", "RT29_UHF", "RT29_VHF"}

BLOCK_SIZE(m) ==
    CASE m = "RT21" -> 16
      [] m = "RB17A" -> 64
      [] m = "RB26" -> 32
      [] m = "RT76" -> 32
      [] OTHER -> 64

BLOCK_SIZE_UP(m) == 16

memsize(m) ==
    CASE m = "RT21" -> 1024
      [] m = "RB17A" -> 768
      [] m = "RB26" -> 800
      [] m = "RT76" -> 480
      [] OTHER -> 1024

\* _ranges: the (start, end) pairs written by an upload
ranges(m) ==
    CASE m = "RT21" -> << <<0, 1024>> >>
      [] m = "RB17A" -> << <<0, 768>> >>
      [] m = "RB26" -> << <<0, 800>> >>
      [] m = "RT76" -> << <<0, 480>> >>
      [] OTHER -> << <<0, 768>> >>

magic(m) ==
    CASE m = "RT21" -> <<80, 82, 77, 90, 85, 78, 69>>
      [] m = "RB17A" -> <<80, 82, 79, 65, 56, 85, 83>>
      [] m = "RB26" -> <<80, 72, 79, 71, 82, 1, 48>>
      [] m = "RT76" -> <<80, 72, 79, 71, 82, 20, 212>>
      [] OTHER -> <<80, 82, 79, 72, 82, 65, 77>>

fingerprint(m) ==
    CASE m = "RT21" -> <<80, 51, 50, 48, 55, 115, 248, 255>>
      [] m = "RB17A" -> <<80, 51, 50, 49, 55, 115, 248, 255>>
      [] m = "RB26" -> <<80, 51, 50, 48, 55, 51, 2, 255>>
      [] m = "RT76" -> <<80, 51, 50, 48, 55, 51, 2, 255>>
      [] m = "RT29_UHF" -> <<80, 51, 50, 48, 55, 19, 248, 255>>
      [] OTHER -> <<80, 50, 50, 48, 55, 1, 248, 255>>

---------------------------------------------------------------------------
(* Helpers: python slicing and range *)

Min(a, b) == IF a < b THEN a ELSE b

\* s[:n]
Take(s, n) == SubSeq(s, 1, Min(n, Len(s)))

\* s[a:b]
Slice(s, a, b) == SubSeq(s, a + 1, Min(b, Len(s)))

\* range(start, stop, step) as a sequence
Range(start, stop, step) ==
    IF stop <= start THEN <<>>
    ELSE [i \in 1..((stop - start + step - 1) \div step) |-> start + (i - 1) * step]

RECURSIVE Flatten(_)
Flatten(ss) == IF ss = <<>> THEN <<>> ELSE Head(ss) \o Flatten(Tail(ss))

---------------------------------------------------------------------------
(* The serial link.  A reply is the sequence of bytes the device has made  *)
(* available when the driver reads; Raise stands for serial.read raising.  *)

Raise == <<-1>>

Wr(b) == [t |-> "w", n |-> Len(b), bytes |-> b, ok |-> TRUE]
WrFail(b) == [t |-> "w", n |-> Len(b), bytes |-> b, ok |-> FALSE]
Rd(n, rep) == [t |-> "r", n |-> n,
               bytes |-> IF rep = Raise THEN <<>> ELSE Take(rep, n),
               ok |-> rep # Raise]

\* struct.pack(">cHb", c, block_addr, block_size)
Pack(c, block_addr, block_size) ==
    <<c, block_addr \div 256, block_addr % 256, block_size>>

\* what a written frame is, read off its bytes
Summary(b) ==
    IF b = <<CH_E>> THEN [cmd |-> "E", addr |-> 0, len |-> 0]
    ELSE IF b = <<CMD_ACK>> THEN [cmd |-> "ACK", addr |-> 0, len |-> 0]
    ELSE IF b = <<IDENT_REQ>> THEN [cmd |-> "ID", addr |-> 0, len |-> 0]
    ELSE IF Len(b) = 4 /\ b[1] = CH_R
        THEN [cmd |-> "R", addr |-> b[2] * 256 + b[3], len |-> b[4]]
    ELSE IF Len(b) > 4 /\ b[1] = CH_W
        THEN [cmd |-> "W", addr |-> b[2] * 256 + b[3], len |-> b[4]]
    ELSE [cmd |-> "MAGIC", addr |-> 0, len |-> 0]

RECURSIVE WritesOf(_)
WritesOf(io) ==
    IF io = <<>> THEN <<>>
    ELSE IF Head(io).t = "w"
        THEN <<Summary(Head(io).bytes)>> \o WritesOf(Tail(io))
    ELSE WritesOf(Tail(io))

---------------------------------------------------------------------------
(* Contents of the device memory and of the image held before a transfer *)

DevByte(s, a) == (a * 7 + (a \div 256) + s * 13) % 256
DevImage(m, s) == [i \in 1..memsize(m) |-> DevByte(s, i - 1)]

LocalByte(s, a) == (a * 5 + (a \div 16) + s * 3 + 1) % 256
LocalImage(m, s) == [i \in 1..memsize(m) |-> LocalByte(s, i - 1)]

---------------------------------------------------------------------------
(* _enter_programming_mode *)

\* the retry loop: script[i] is what the device answers to the i-th magic
RECURSIVE MagicLoop(_, _, _)
MagicLoop(m, script, i) ==
    IF i > MaxTries THEN [io |-> <<>>, exito |-> FALSE, exc |-> "none"]
    ELSE
      LET rep == script[i]
          r1 == Rd(1, rep)
          io1 == <<Wr(magic(m)), r1>>
      IN  IF ~r1.ok THEN [io |-> io1, exito |-> FALSE, exc |-> "IOError"]
          ELSE
            LET nul == r1.bytes = <<0>>
                r2 == Rd(1, Slice(rep, 1, 2))
                io2 == IF nul THEN io1 \o <<r2>> ELSE io1
                ack == IF nul THEN r2.bytes ELSE r1.bytes
            IN  IF ack = <<CMD_ACK>>
                THEN [io |-> io2, exito |-> TRUE, exc |-> "none"]
                ELSE LET rest == MagicLoop(m, script, i + 1)
                     IN  [io |-> io2 \o rest.io, exito |-> rest.exito,
                          exc |-> rest.exc]

\* lines 385-392: send ACK, expect it echoed
EchoStage(io, echoRep) ==
    LET rack == Rd(1, echoRep)
        io2 == io \o <<Wr(<<CMD_ACK>>), rack>>
    IN  IF ~rack.ok THEN [io |-> io2, exc |-> "RadioError"]
        ELSE IF rack.bytes # <<CMD_ACK>> THEN [io |-> io2, exc |-> "RadioError"]
        ELSE [io |-> io2, exc |-> "none"]

\* the identification compared with nothing: any 8 bytes are accepted
IdentStageNoCompare(m, io, identRep, echoRep) ==
    LET rid == Rd(8, identRep)
        io1 == io \o <<Wr(<<IDENT_REQ>>), rid>>
    IN  IF ~rid.ok THEN [io |-> io1, exc |-> "RadioError"]
        ELSE EchoStage(io1, echoRep)

\* lines 375-383: request and compare the identification
IdentStage(m, io, identRep, echoRep) ==
    LET rid == Rd(8, identRep)
        io1 == io \o <<Wr(<<IDENT_REQ>>), rid>>
    IN  IF ~rid.ok THEN [io |-> io1, exc |-> "RadioError"]
        ELSE IF ~(rid.bytes = fingerprint(m)) THEN [io |-> io1, exc |-> "RadioError"]
        ELSE EchoStage(io1, echoRep)

\* the `exito is False` test left out
EnterProgrammingModeNoExitoTest(m, script, identRep, echoRep) ==
    LET lp == MagicLoop(m, script, 1) IN
    IF lp.exc # "none" THEN [io |-> lp.io, exc |-> lp.exc]
    ELSE IdentStage(m, lp.io, identRep, echoRep)

EnterProgrammingMode(m, script, identRep, echoRep) ==
    LET lp == MagicLoop(m, script, 1) IN
    IF lp.exc # "none" THEN [io |-> lp.io, exc |-> lp.exc]
    ELSE IF lp.exito = FALSE THEN [io |-> lp.io, exc |-> "RadioError"]
    ELSE IdentStage(m, lp.io, identRep, echoRep)

\* _exit_programming_mode; wok: serial.write succeeded
ExitProgrammingMode(wok) ==
    IF wok THEN [io |-> <<Wr(<<CH_E>>)>>, exc |-> "none"]
    ELSE [io |-> <<WrFail(<<CH_E>>)>>, exc |-> "RadioError"]

---------------------------------------------------------------------------
(* Block transfer *)

\* the ACK written after a block but its echo never read
ReadBlockNoAckRead(block_addr, block_size, resp, ackRep) ==
    LET cmd == Pack(CH_R, block_addr, block_size)
        expectedresponse == <<CH_W>> \o Tail(cmd)
        r1 == Rd(4 + block_size, resp)
        io1 == <<Wr(cmd), r1>>
    IN  IF ~r1.ok \/ Take(r1.bytes, 4) # expectedresponse
        THEN [io |-> io1, exc |-> "RadioError", block |-> <<>>]
        ELSE [io |-> io1 \o <<Wr(<<CMD_ACK>>)>>, exc |-> "none",
              block |-> SubSeq(r1.bytes, 5, Len(r1.bytes))]

ReadBlock(block_addr, block_size, resp, ackRep) ==
    LET cmd == Pack(CH_R, block_addr, block_size)
        expectedresponse == <<CH_W>> \o Tail(cmd)
        r1 == Rd(4 + block_size, resp)
        io1 == <<Wr(cmd), r1>>
    IN  IF ~r1.ok \/ Take(r1.bytes, 4) # expectedresponse
        THEN [io |-> io1, exc |-> "RadioError", block |-> <<>>]
        ELSE
          LET r2 == Rd(1, ackRep)
              io2 == io1 \o <<Wr(<<CMD_ACK>>), r2>>
          IN  IF ~r2.ok THEN [io |-> io2, exc |-> "RadioError", block |-> <<>>]
              ELSE IF r2.bytes # <<CMD_ACK>>
                  THEN [io |-> io2, exc |-> "Exception", block |-> <<>>]
              ELSE [io |-> io2, exc |-> "none",
                    block |-> SubSeq(r1.bytes, 5, Len(r1.bytes))]

\* _rb26_read_block with the ACK exchange after every block
Rb26ReadBlockAlwaysAck(block_addr, block_size, resp, ackRep) ==
    ReadBlock(block_addr, block_size, resp, ackRep)

Rb26ReadBlock(block_addr, block_size, resp, ackRep) ==
    LET cmd == Pack(CH_R, block_addr, block_size)
        expectedresponse == <<CH_W>> \o Tail(cmd)
        r1 == Rd(4 + block_size, resp)
        io1 == <<Wr(cmd), r1>>
    IN  IF ~r1.ok \/ Take(r1.bytes, 4) # expectedresponse
        THEN [io |-> io1, exc |-> "RadioError", block |-> <<>>]
        ELSE IF block_addr = 0
            THEN [io |-> io1, exc |-> "none",
                  block |-> SubSeq(r1.bytes, 5, Len(r1.bytes))]
        ELSE
          LET r2 == Rd(1, ackRep)
              io2 == io1 \o <<Wr(<<CMD_ACK>>), r2>>
          IN  IF ~r2.ok THEN [io |-> io2, exc |-> "RadioError", block |-> <<>>]
              ELSE IF r2.bytes # <<CMD_ACK>>
                  THEN [io |-> io2, exc |-> "Exception", block |-> <<>>]
              ELSE [io |-> io2, exc |-> "none",
                    block |-> SubSeq(r1.bytes, 5, Len(r1.bytes))]

WriteBlock(img, block_addr, block_size, rep) ==
    LET cmd == Pack(CH_W, block_addr, block_size)
        blk == Slice(img, block_addr, block_addr + block_size)
        r1 == Rd(1, rep)
        io1 == <<Wr(cmd \o blk), r1>>
    IN  IF ~r1.ok \/ r1.bytes # <<CMD_ACK>>
        THEN [io |-> io1, exc |-> "RadioError"]
        ELSE [io |-> io1, exc |-> "none"]

\* the download loop stepping by the upload block size
DownloadAddrsUpStep(m) == Range(0, memsize(m), BLOCK_SIZE_UP(m))

\* the block addresses do_download walks through
DownloadAddrs(m) == Range(0, memsize(m), BLOCK_SIZE(m))

\* the upload loop walking the whole image instead of _ranges
UploadAddrsWholeImage(m) == Range(0, memsize(m), BLOCK_SIZE_UP(m))

\* the block addresses do_upload walks through
UploadAddrs(m) ==
    Flatten([i \in 1..Len(ranges(m)) |->
                Range(ranges(m)[i][1], ranges(m)[i][2], BLOCK_SIZE_UP(m))])

\* sync_in without its catch-all clause
SyncInCatchPassThrough(exc) == exc

\* sync_in: a RadioError passes through, anything else becomes a RadioError
SyncInCatch(exc) ==
    IF exc = "RadioError" THEN "RadioError" ELSE "RadioError"

\* sync_out: whatever do_upload raises becomes a RadioError
SyncOutCatch(exc) == "RadioError"

---------------------------------------------------------------------------
(* Per-model layout of the memory image: the MEM_FORMAT strings *)

upper(m) ==
    CASE m = "RT21" -> 16
      [] m = "RB17A" -> 30
      [] m = "RB26" -> 30
      [] m = "RT76" -> 30
      [] OTHER -> 16

skipflags(m) == m # "RT76"
reserved(m) == m \in {"RB26", "RT76"}
gmrs(m) == m \in {"RB17A", "RB26", "RT76"}

IsRT29(m) == m = "RT29_UHF" \/ m = "RT29_VHF"

\* size of one channel record
RecLen == 16

\* offset of the record of channel `number`
MemBase(m, number) ==
    CASE m = "RB17A" ->
            IF number < 17 THEN 16 + RecLen * (number - 1)
            ELSE 512 + RecLen * (number - 17)
      [] m \in {"RB26", "RT76"} -> RecLen * (number - 1)
      [] OTHER -> 16 + RecLen * (number - 1)

\* offset of skipflags[0]
SkipBase(m) == IF m = "RB26" THEN 496 ELSE 382

\* a bit-field of a record: byte offset in the record, shift, width
\* (the first field declared in a byte takes its most significant bits)
Fld(b, sh, w) == [byte |-> b, shift |-> sh, bits |-> w]
NoFld == Fld(0, 0, 0)

Field(m, name) ==
    CASE m = "RT21" ->
            (CASE name = "bcl" -> Fld(12, 3, 2)
               [] name = "highpower" -> Fld(13, 5, 1)
               [] name = "wide" -> Fld(13, 4, 1)
               [] name = "scramble_type" -> Fld(14, 4, 3)
               [] name = "scramble_type2" -> Fld(15, 0, 3)
               [] OTHER -> NoFld)
      [] m = "RB17A" ->
            (CASE name = "compander" -> Fld(12, 6, 1)
               [] name = "bcl" -> Fld(12, 4, 2)
               [] name = "cdcss" -> Fld(12, 3, 1)
               [] name = "scramble_type" -> Fld(12, 0, 3)
               [] name = "highpower" -> Fld(13, 1, 1)
               [] name = "wide" -> Fld(13, 0, 1)
               [] OTHER -> NoFld)
      [] m = "RB26" ->
            (CASE name = "compander" -> Fld(12, 7, 1)
               [] name = "highpower" -> Fld(12, 5, 1)
               [] name = "wide" -> Fld(12, 4, 1)
               [] name = "bcl" -> Fld(12, 3, 1)
               [] OTHER -> NoFld)
      [] m = "RT76" ->
            (CASE name = "compander" -> Fld(12, 7, 1)
               [] name = "highpower" -> Fld(12, 5, 1)
               [] name = "wide" -> Fld(12, 4, 1)
               [] OTHER -> NoFld)
      [] OTHER ->
            (CASE name = "compander" -> Fld(12, 5, 1)
               [] name = "bcl" -> Fld(12, 3, 2)
               [] name = "txpower" -> Fld(13, 5, 2)
               [] name = "wide" -> Fld(13, 4, 1)
               [] name = "cdcss" -> Fld(13, 0, 1)
               [] name = "scramble_type" -> Fld(15, 0, 3)
               [] OTHER -> NoFld)

HasField(m, name) == Field(m, name).bits > 0

\* TXPOWER_LOW / TXPOWER_MED / TXPOWER_HIGH of the RT29 classes
TXPOWER_MED == 0
TXPOWER_HIGH == 1
TXPOWER_LOW == 2

\* POWER_LEVELS, by label
POWER_LEVELS(m) ==
    IF IsRT29(m) THEN <<"High", "Mid", "Low">> ELSE <<"Low", "High">>

\* int(GMRS_FREQS[n - 1] * 100000), n = 1..30
GMRS_FREQ ==
    <<46256250, 46258750, 46261250, 46263750, 46266250, 46268750, 46271250,
      46756250, 46758750, 46761250, 46763750, 46766250, 46768750, 46771250,
      46255000, 46257500, 46260000, 46262500, 46265000, 46267500, 46270000,
      46272500,
      46255000, 46257500, 46260000, 46262500, 46265000, 46267500, 46270000,
      46272500>>

---------------------------------------------------------------------------
(* Typed views on the image (chirp.bitwise) *)

Pow2(n) == 2 ^ n

\* get_raw() of n bytes at offset off
GetRaw(img, off, n) == SubSeq(img, off + 1, off + n)

\* set_raw(bytes) at offset off
SetRaw(img, off, bytes) ==
    [i \in DOMAIN img |->
        IF i > off /\ i <= off + Len(bytes) THEN bytes[i - off] ELSE img[i]]

Rep(b, n) == [i \in 1..n |-> b]

\* one packed-decimal byte: tens in the high nibble, ones in the low one
BcdByte(b) == (b \div 16) * 10 + (b % 16)

\* int() of an lbcd[4] field: least significant byte first
LbcdToInt(bytes) ==
    BcdByte(bytes[1]) + 100 * BcdByte(bytes[2])
        + 10000 * BcdByte(bytes[3]) + 1000000 * BcdByte(bytes[4])

\* assignment of an integer to an lbcd[4] field
IntToLbcd(v) ==
    [k \in 1..4 |->
        LET dd == (v \div (100 ^ (k - 1))) % 100
        IN  (dd \div 10) * 16 + (dd % 10)]

\* ul16: little-endian 16-bit integer
Ul16ToInt(bytes) == bytes[1] + 256 * bytes[2]
IntToUl16(v) == <<v % 256, (v \div 256) % 256>>

GetField(img, base, f) ==
    (img[base + f.byte + 1] \div Pow2(f.shift)) % Pow2(f.bits)

SetField(img, base, f, v) ==
    LET old == img[base + f.byte + 1]
        cur == (old \div Pow2(f.shift)) % Pow2(f.bits)
        new == old - cur * Pow2(f.shift) + (v % Pow2(f.bits)) * Pow2(f.shift)
    IN  [img EXCEPT ![base + f.byte + 1] = new]

\* val & bit, for a one-bit mask
TestBit(val, bitpos) == (val \div bitpos) % 2 = 1

B2N(b) == IF b THEN 1 ELSE 0

---------------------------------------------------------------------------
(* The logical channel (chirp_common.Memory) *)

NoExtra == [bcl |-> -1, scramble_type |-> -1, cdcss |-> -1, compander |-> -1]

\* chirp_common.Memory(): the attribute values of a new Memory; tones are
\* kept in tenths of Hz, a cross mode as its (tx, rx) pair, power by label
NewMemory ==
    [number |-> 0, empty |-> FALSE, freq |-> 0, duplex |-> "", offset |-> 600000,
     mode |-> "FM", tmode |-> "", rtone |-> 885, ctone |-> 885, dtcs |-> 23,
     rx_dtcs |-> 23, dtcs_polarity |-> <<"N", "N">>,
     cross_mode |-> <<"Tone", "Tone">>, power |-> "", skip |-> "",
     extra |-> NoExtra]

\* no Memory at all
NoMem == [NewMemory EXCEPT !.number = -1]

\* int("%03o" % v): the octal digits of v read as a decimal number
OctDigits(v) ==
    (v \div 512) * 1000 + ((v \div 64) % 8) * 100 + ((v \div 8) % 8) * 10 + (v % 8)

\* int("%i" % code, 8): the decimal digits of code read as an octal number
OctValue(code) ==
    (code \div 1000) * 512 + ((code \div 100) % 10) * 64
        + ((code \div 10) % 10) * 8 + (code % 10)

\* _get_tone._get_dcs
GetDcs(val) ==
    [code |-> OctDigits(val % 2048),
     pol |-> IF TestBit(val, 32768) THEN "R" ELSE "N"]

\* _set_tone._set_dcs
SetDcs(code, pol) ==
    OctValue(code) + 10240 + (IF pol = "R" THEN 32768 ELSE 0)

\* the transmit side alone decides the tone mode
GetToneTxOnly(tx_tone, rx_tone, mem) ==
    IF tx_tone # 65535 /\ tx_tone <= 8192
    THEN [mem EXCEPT !.tmode = "Tone", !.rtone = tx_tone]
    ELSE mem

\* _get_tone: tx_tone / rx_tone of the record into the Memory
GetTone(tx_tone, rx_tone, mem) ==
    LET txmode == IF tx_tone # 65535 /\ tx_tone > 8192 THEN "DTCS"
                  ELSE IF tx_tone # 65535 THEN "Tone" ELSE ""
        rxmode == IF rx_tone # 65535 /\ rx_tone > 8192 THEN "DTCS"
                  ELSE IF rx_tone # 65535 THEN "Tone" ELSE ""
        m1 == IF txmode = "DTCS" THEN [mem EXCEPT !.dtcs = GetDcs(tx_tone).code]
              ELSE IF txmode = "Tone" THEN [mem EXCEPT !.rtone = tx_tone]
              ELSE mem
        m2 == IF rxmode = "DTCS" THEN [m1 EXCEPT !.rx_dtcs = GetDcs(rx_tone).code]
              ELSE IF rxmode = "Tone" THEN [m1 EXCEPT !.ctone = rx_tone]
              ELSE m1
        m3 == IF txmode = "Tone" /\ rxmode = "" THEN [m2 EXCEPT !.tmode = "Tone"]
              ELSE IF txmode = rxmode /\ txmode = "Tone" /\ m2.rtone = m2.ctone
                  THEN [m2 EXCEPT !.tmode = "TSQL"]
              ELSE IF txmode = rxmode /\ txmode = "DTCS" /\ m2.dtcs = m2.rx_dtcs
                  THEN [m2 EXCEPT !.tmode = "DTCS"]
              ELSE IF rxmode # "" \/ txmode # ""
                  THEN [m2 EXCEPT !.tmode = "Cross",
                                  !.cross_mode = <<txmode, rxmode>>]
              ELSE m2
    IN  IF m3.tmode = "DTCS"
        THEN [m3 EXCEPT !.dtcs_polarity =
                            <<GetDcs(tx_tone).pol, GetDcs(rx_tone).pol>>]
        ELSE m3

\* _set_tone: the tx_tone / rx_tone codes stored for the Memory
SetTone(mem) ==
    IF mem.tmode = "Tone" THEN [tx |-> mem.rtone, rx |-> 65535]
    ELSE IF mem.tmode = "TSQL" THEN [tx |-> mem.ctone, rx |-> mem.ctone]
    ELSE IF mem.tmode = "DTCS"
        THEN [tx |-> SetDcs(mem.dtcs, mem.dtcs_polarity[1]),
              rx |-> SetDcs(mem.dtcs, mem.dtcs_polarity[2])]
    ELSE IF mem.tmode = "Cross"
        THEN [tx |-> IF mem.cross_mode[1] = "DTCS"
                        THEN SetDcs(mem.dtcs, mem.dtcs_polarity[1])
                     ELSE IF mem.cross_mode[1] = "Tone" THEN mem.rtone
                     ELSE 65535,
              rx |-> IF mem.cross_mode[2] = "DTCS"
                        THEN SetDcs(mem.rx_dtcs, mem.dtcs_polarity[2])
                     ELSE IF mem.cross_mode[2] = "Tone" THEN mem.ctone
                     ELSE 65535]
    ELSE [tx |-> 65535, rx |-> 65535]

\* get_memory, lines 738-745: a record of sixteen 0xFF bytes is rewritten
LazyInit(m, img, base, rsvd) ==
    IF GetRaw(img, base, RecLen) # Rep(255, RecLen) THEN img
    ELSE
      LET a == IF m = "RB17A"
               THEN SetRaw(img, base, Rep(0, 13) \o <<4, 255, 255>>)
               ELSE img
      IN  IF m = "RB26" \/ m = "RT76"
          THEN SetRaw(a, base, Rep(0, 13) \o rsvd)
          ELSE SetRaw(a, base, Rep(0, 13) \o <<48, 143, 248>>)

\* the power level at the index the stored value gives
GetPowerIndexed(m, img, base) ==
    IF IsRT29(m)
    THEN LET p == GetField(img, base, Field(m, "txpower")) IN
         IF p < 3 THEN POWER_LEVELS(m)[p + 1] ELSE ""
    ELSE POWER_LEVELS(m)[GetField(img, base, Field(m, "highpower")) + 1]

\* get_memory, lines 758-770
GetPower(m, img, base) ==
    IF IsRT29(m)
    THEN LET p == GetField(img, base, Field(m, "txpower")) IN
         IF p = TXPOWER_LOW THEN POWER_LEVELS(m)[3]
         ELSE IF p = TXPOWER_MED THEN POWER_LEVELS(m)[2]
         ELSE IF p = TXPOWER_HIGH THEN POWER_LEVELS(m)[1]
         ELSE ""
    ELSE POWER_LEVELS(m)[GetField(img, base, Field(m, "highpower")) + 1]

\* get_memory, lines 776-813: the extra settings of the channel
GetExtra(m, img, base) ==
    LET f(name) == GetField(img, base, Field(m, name)) IN
    IF m \in {"RT21", "RB17A"} \/ IsRT29(m)
    THEN [bcl |-> f("bcl"),
          scramble_type |-> f("scramble_type") + 1,
          cdcss |-> IF m = "RT21" THEN -1 ELSE f("cdcss"),
          compander |-> IF m = "RT21" THEN -1 ELSE f("compander")]
    ELSE [bcl |-> IF m = "RB26" THEN f("bcl") ELSE -1,
          scramble_type |-> -1,
          cdcss |-> -1,
          compander |-> f("compander")]

\* the difference of the two fields taken as the offset, with its sign
GetDuplexSigned(rx, tx, mem) ==
    IF rx = tx THEN [mem EXCEPT !.duplex = "", !.offset = 0]
    ELSE [mem EXCEPT !.duplex = IF rx > tx THEN "-" ELSE "+",
                     !.offset = (tx - rx) * 10]

\* get_memory, lines 747-752: duplex and offset from int(rxfreq), int(txfreq)
GetDuplex(rx, tx, mem) ==
    IF rx = tx THEN [mem EXCEPT !.duplex = "", !.offset = 0]
    ELSE [mem EXCEPT !.duplex = IF rx > tx THEN "-" ELSE "+",
                     !.offset = (IF rx > tx THEN rx - tx ELSE tx - rx) * 10]

\* get_memory: the Memory returned, the image afterwards, and the
\* exception raised ("none" if none)
GetMemory(m, img, number) ==
    LET base == MemBase(m, number)
        bitpos == Pow2((number - 1) % 8)
        skp == IF skipflags(m) THEN img[SkipBase(m) + ((number - 1) \div 8) + 1]
               ELSE 0
        rsvd == GetRaw(img, base + 13, 3)
        mem0 == [NewMemory EXCEPT !.number = number,
                                  !.freq = LbcdToInt(GetRaw(img, base, 4)) * 10]
    IN  IF mem0.freq = 0
        THEN [mem |-> [mem0 EXCEPT !.empty = TRUE], img |-> img, exc |-> "none"]
        ELSE IF GetRaw(img, base, 4) = <<255, 255, 255, 255>>
        THEN [mem |-> [mem0 EXCEPT !.freq = 0, !.empty = TRUE], img |-> img,
              exc |-> "none"]
        ELSE
          LET img1 == LazyInit(m, img, base, rsvd)
              rx == LbcdToInt(GetRaw(img1, base, 4))
              tx == LbcdToInt(GetRaw(img1, base + 4, 4))
              mem1 == GetDuplex(rx, tx, mem0)
              mem2 == [mem1 EXCEPT !.mode =
                          IF GetField(img1, base, Field(m, "wide")) = 1
                          THEN "FM" ELSE "NFM"]
              mem3 == GetTone(Ul16ToInt(GetRaw(img1, base + 10, 2)),
                              Ul16ToInt(GetRaw(img1, base + 8, 2)), mem2)
              mem4 == [mem3 EXCEPT !.power = GetPower(m, img1, base)]
              mem5 == IF m # "RT76"
                      THEN [mem4 EXCEPT !.skip =
                              IF TestBit(skp, bitpos) THEN "" ELSE "S"]
                      ELSE mem4
          IN  IF HasField(m, "bcl") /\ m # "RB26"
                 /\ GetField(img1, base, Field(m, "bcl")) > 2
              THEN [mem |-> mem5, img |-> img1, exc |-> "IndexError"]
              ELSE [mem |-> [mem5 EXCEPT !.extra = GetExtra(m, img1, base)],
                    img |-> img1, exc |-> "none"]

\* a blanking pattern that reads as the digits of a frequency
EmptyRecordDigits(m, rsvd) == Rep(1, RecLen)

\* set_memory, lines 882-887: the bytes an empty Memory is blanked with
EmptyRecord(m, rsvd) ==
    IF m = "RB17A" THEN Rep(255, 12) \o <<0, 0, 255, 255>>
    ELSE IF m = "RB26" \/ m = "RT76" THEN Rep(255, 13) \o rsvd
    ELSE Rep(255, RecLen)

\* the default record of the models without reserved bytes, for all
DefaultRecordFixedTail(m, rsvd) == Rep(0, 13) \o <<48, 143, 248>>

\* set_memory, lines 906-911: the bytes a record is reset to before the
\* fields of a non-empty Memory are written
DefaultRecord(m, rsvd) ==
    IF m = "RB17A" THEN Rep(0, 13) \o <<0, 255, 255>>
    ELSE IF m = "RB26" \/ m = "RT76" THEN Rep(0, 13) \o rsvd
    ELSE Rep(0, 13) \o <<48, 143, 248>>

\* an empty Memory blanked only, on every model
SetEmptyBlankOnly(m, img, number) ==
    SetRaw(img, MemBase(m, number),
           EmptyRecord(m, GetRaw(img, MemBase(m, number) + 13, 3)))

\* set_memory, lines 881-904: an empty Memory
SetEmpty(m, img, number) ==
    LET base == MemBase(m, number)
        rsvd == GetRaw(img, base + 13, 3)
        img1 == SetRaw(img, base, EmptyRecord(m, rsvd))
    IN  IF ~gmrs(m) THEN img1
        ELSE
          LET g == GMRS_FREQ[number]
              img2 == IF number > 22
                      THEN LET a == SetRaw(img1, base, IntToLbcd(g))
                               b == SetRaw(a, base + 4,
                                      IntToLbcd(LbcdToInt(GetRaw(a, base, 4)) + 500000))
                           IN  SetField(b, base, Field(m, "wide"), 1)
                      ELSE SetRaw(SetRaw(img1, base, IntToLbcd(g)), base + 4, IntToLbcd(g))
          IN  IF number >= 8 /\ number <= 14
              THEN SetField(SetField(img2, base, Field(m, "wide"), 0),
                            base, Field(m, "highpower"), 0)
              ELSE SetField(SetField(img2, base, Field(m, "wide"), 1),
                            base, Field(m, "highpower"), 1)

\* the tx frequency field written as for simplex, whatever the duplex
SetTxFreqSimplex(img, base, mem) ==
    SetRaw(img, base + 4, IntToLbcd(mem.freq \div 10))

\* set_memory, lines 913-925: the tx frequency field for the duplex
SetTxFreq(img, base, mem) ==
    IF mem.duplex = "off" THEN SetRaw(img, base + 4, Rep(255, 4))
    ELSE IF mem.duplex = "split"
        THEN SetRaw(img, base + 4, IntToLbcd(mem.offset \div 10))
    ELSE IF mem.duplex = "+"
        THEN SetRaw(img, base + 4, IntToLbcd((mem.freq + mem.offset) \div 10))
    ELSE IF mem.duplex = "-"
        THEN SetRaw(img, base + 4, IntToLbcd((mem.freq - mem.offset) \div 10))
    ELSE SetRaw(img, base + 4, IntToLbcd(mem.freq \div 10))

\* set_memory, lines 931-943
SetPower(m, img, base, mem) ==
    IF IsRT29(m)
    THEN IF mem.power = POWER_LEVELS(m)[3]
            THEN SetField(img, base, Field(m, "txpower"), TXPOWER_LOW)
         ELSE IF mem.power = POWER_LEVELS(m)[2]
            THEN SetField(img, base, Field(m, "txpower"), TXPOWER_MED)
         ELSE IF mem.power = POWER_LEVELS(m)[1]
            THEN SetField(img, base, Field(m, "txpower"), TXPOWER_HIGH)
         ELSE img
    ELSE SetField(img, base, Field(m, "highpower"),
                  B2N(mem.power = POWER_LEVELS(m)[2]))

\* the whole scan-add byte of the channel set or cleared
SetSkipWholeByte(m, img, mem) ==
    IF m = "RT76" THEN img
    ELSE [img EXCEPT ![SkipBase(m) + ((mem.number - 1) \div 8) + 1] =
                        IF mem.skip # "S" THEN 255 ELSE 0]

\* set_memory, lines 945-950: the scan-add bit of the channel
SetSkip(m, img, mem) ==
    IF m = "RT76" THEN img
    ELSE
      LET pos == SkipBase(m) + ((mem.number - 1) \div 8) + 1
          bitpos == Pow2((mem.number - 1) % 8)
          skp == img[pos]
      IN  IF mem.skip # "S"
          THEN [img EXCEPT ![pos] = IF TestBit(skp, bitpos) THEN skp ELSE skp + bitpos]
          ELSE [img EXCEPT ![pos] = IF TestBit(skp, bitpos) THEN skp - bitpos ELSE skp]

\* set_memory, lines 952-958: every setting of mem.extra (absent: -1)
SetExtra(m, img, base, ex) ==
    LET a == IF ex.bcl # -1 THEN SetField(img, base, Field(m, "bcl"), ex.bcl) ELSE img
        b == IF ex.scramble_type # -1
             THEN LET b1 == SetField(a, base, Field(m, "scramble_type"),
                                     ex.scramble_type - 1)
                  IN  IF m = "RT21"
                      THEN SetField(b1, base, Field(m, "scramble_type2"),
                                    ex.scramble_type - 1)
                      ELSE b1
             ELSE a
        c == IF ex.cdcss # -1 THEN SetField(b, base, Field(m, "cdcss"), ex.cdcss) ELSE b
    IN  IF ex.compander # -1
        THEN SetField(c, base, Field(m, "compander"), ex.compander)
        ELSE c

\* every Memory blanked, and its scan-add bit written
SetMemoryBlankAndSkip(m, img, mem) ==
    SetSkip(m, SetEmpty(m, img, mem.number), mem)

\* set_memory: the image afterwards
SetMemory(m, img, mem) ==
    IF mem.empty THEN SetEmpty(m, img, mem.number)
    ELSE
      LET base == MemBase(m, mem.number)
          rsvd == GetRaw(img, base + 13, 3)
          i0 == SetRaw(img, base, DefaultRecord(m, rsvd))
          i1 == SetRaw(i0, base, IntToLbcd(mem.freq \div 10))
          i2 == SetTxFreq(i1, base, mem)
          i3 == SetField(i2, base, Field(m, "wide"), B2N(mem.mode = "FM"))
          i4 == SetRaw(SetRaw(i3, base + 8, IntToUl16(SetTone(mem).rx)),
                       base + 10, IntToUl16(SetTone(mem).tx))
          i5 == SetPower(m, i4, base, mem)
          i6 == SetSkip(m, i5, mem)
      IN  SetExtra(m, i6, base, mem.extra)

---------------------------------------------------------------------------
(* get_settings of the RB26 / RT76 layouts *)

\* the choice lists; a label in seconds or steps is kept as its number and
\* "Off" as 0, VOXD_LIST in tenths of a second
TIMEOUTTIMER_LIST == [i \in 1..41 |-> (i - 1) * 15]
VOICE_LIST2 == <<"Off", "English">>
VOICE_LIST3 == <<"Off", "English", "Chinese">>
SAVE_LIST == <<"Standard", "Super">>
GAIN_LIST == <<"Standard", "Enhanced">>
WARN_LIST == <<"OFF", "Native Warn", "Remote Warn">>
VOXL_LIST == [i \in 1..9 |-> i - 1]
VOXD_LIST == [i \in 1..6 |-> i * 5]
PFKEY_LIST ==
    <<"None", "Monitor", "Lamp", "Warn", "VOX", "VOX Delay", "Key Lock", "Scan">>

\* RadioSettingValueList(list, list[v])
ListSetting(name, list, v) ==
    IF v < Len(list) THEN [name |-> name, value |-> <<list[v + 1]>>, exc |-> "none"]
    ELSE [name |-> name, value |-> <<>>, exc |-> "IndexError"]

\* RadioSettingValueInteger(lo, hi, v)
IntSetting(name, lo, hi, v) ==
    IF lo <= v /\ v <= hi THEN [name |-> name, value |-> <<v>>, exc |-> "none"]
    ELSE [name |-> name, value |-> <<>>, exc |-> "InvalidValueError"]

\* RadioSettingValueBoolean(v)
BoolSetting(name, v) == [name |-> name, value |-> <<v>>, exc |-> "none"]

\* get_settings, lines 1097-1198: the settings in the order they are built;
\* the first one that cannot be built raises and nothing is returned
SettingsRB26RT76(m, img) ==
    LET u8(a) == img[a + 1]
        bits(a, sh, w) == (img[a + 1] \div Pow2(sh)) % Pow2(w)
        entries ==
          IF m = "RB26"
          THEN << IntSetting("squelch", 0, 9, u8(46)),
                  ListSetting("tot", TIMEOUTTIMER_LIST, u8(47)),
                  ListSetting("voice", VOICE_LIST2, bits(45, 1, 1)),
                  BoolSetting("chnumberd", bits(45, 6, 1) = 0),
                  BoolSetting("save", bits(45, 3, 1) # 0),
                  BoolSetting("beep", bits(45, 2, 1) # 0),
                  BoolSetting("tail", u8(126) = 0),
                  ListSetting("savem", SAVE_LIST, bits(45, 4, 1)),
                  ListSetting("gain", GAIN_LIST, bits(45, 5, 1)),
                  ListSetting("warn", WARN_LIST, u8(109)),
                  BoolSetting("settings3.vox", bits(797, 0, 1) # 0),
                  ListSetting("settings3.voxl", VOXL_LIST, u8(798)),
                  ListSetting("settings3.voxd", VOXD_LIST, u8(799)),
                  ListSetting("pf1", PFKEY_LIST, u8(110)),
                  ListSetting("pf2", PFKEY_LIST, u8(111)),
                  IntSetting("settings2.chnumber", 1, 30, u8(671) + 1) >>
          ELSE << IntSetting("squelch", 0, 9, u8(46)),
                  ListSetting("tot", TIMEOUTTIMER_LIST, u8(47)),
                  ListSetting("voice", VOICE_LIST3, bits(45, 0, 2)),
                  BoolSetting("save", bits(45, 3, 1) # 0),
                  BoolSetting("beep", bits(45, 2, 1) # 0),
                  ListSetting("savem", SAVE_LIST, bits(45, 4, 1)),
                  ListSetting("gain", GAIN_LIST, bits(45, 5, 1)),
                  ListSetting("warn", WARN_LIST, u8(109)),
                  BoolSetting("vox", bits(61, 0, 1) # 0),
                  ListSetting("voxl", VOXL_LIST, u8(62)),
                  ListSetting("voxd", VOXD_LIST, u8(63)),
                  IntSetting("chnumber", 1, 30, u8(93) + 1) >>
        bad == {i \in DOMAIN entries : entries[i].exc # "none"}
        first == CHOOSE i \in bad : \A j \in bad : i <= j
    IN  IF bad = {}
        THEN [exc |-> "none",
              settings |-> [i \in DOMAIN entries |->
                              <<entries[i].name, entries[i].value>>]]
        ELSE [exc |-> entries[first].exc, settings |-> <<>>]

---------------------------------------------------------------------------
(* Images the channel editor starts from *)

\* a byte of an image file whose settings hold values of their lists
CodecByte(s, a) == LocalByte(s, a) % 3

\* the image loaded before editing: a blank one, or one with contents
CodecImage(m, s) ==
    IF s = 0 THEN Rep(255, memsize(m))
    ELSE [i \in 1..memsize(m) |-> CodecByte(s, i - 1)]

---------------------------------------------------------------------------
(* validate_memory *)

\* int(GMRS_FREQS[n - 1] * 1000000), n = 1..30 (every float product of the
\* table is exact)
GMRS_HZ == [n \in 1..30 |-> GMRS_FREQ[n] * 10]

\* chirp_common.CloneModeRadio.validate_memory: no message for a Memory
\* inside the declared features
BaseValidate(m, mem) == <<>>

\* mem.power == label: a PowerLevel compared with a label string
\* (chirp_common.PowerLevel), taken to compare the labels
PowerIs(power, label) == power = label

\* msgs.append(...) if the test holds
MsgIf(test, msg) == IF test THEN <<msg>> ELSE <<>>

\* validate_memory without the power test of channels 8 - 14
ValidateMemoryNoPower(m, mem) ==
    BaseValidate(m, mem) \o
    (IF ~gmrs(m) THEN <<>>
     ELSE MsgIf(mem.freq # GMRS_HZ[mem.number],
                "Memory location cannot change frequency")
          \o MsgIf(mem.number <= 22 /\ mem.duplex # "",
                   "Memory location only supports Duplex:(None)")
          \o MsgIf(mem.number >= 23 /\ mem.duplex # "+",
                   "Memory location only supports Duplex: +")
          \o MsgIf(mem.number >= 23 /\ mem.offset # 5000000,
                   "Memory location only supports Offset: 5.000000")
          \o MsgIf(mem.number >= 8 /\ mem.number <= 14 /\ mem.mode # "NFM",
                   "Memory location only supports Mode: NFM"))

\* validate_memory: the list of messages returned
ValidateMemory(m, mem) ==
    BaseValidate(m, mem) \o
    (IF ~gmrs(m) THEN <<>>
     ELSE MsgIf(mem.freq # GMRS_HZ[mem.number],
                "Memory location cannot change frequency")
          \o MsgIf(mem.number <= 22 /\ mem.duplex # "",
                   "Memory location only supports Duplex:(None)")
          \o MsgIf(mem.number >= 23 /\ mem.duplex # "+",
                   "Memory location only supports Duplex: +")
          \o MsgIf(mem.number >= 23 /\ mem.offset # 5000000,
                   "Memory location only supports Offset: 5.000000")
          \o MsgIf(mem.number >= 8 /\ mem.number <= 14 /\ mem.mode # "NFM",
                   "Memory location only supports Mode: NFM")
          \o MsgIf(mem.number >= 8 /\ mem.number <= 14
                     /\ ~PowerIs(mem.power, "Low"),
                   "Memory location only supports Power: Low"))


---------------------------------------------------------------------------
(* get_settings of the RT21 / RB17A / RT29 layouts *)

TOTALERT_LIST == [i \in 1..11 |-> i - 1]
VOICE_LIST == <<"Off", "Chinese", "English">>
ALARM_LIST == <<"Local Alarm", "Remote Alarm">>
VOX_LIST == [i \in 1..17 |-> i - 1]

PF1_CHOICES == <<"None", "Monitor", "Scan", "Scramble", "Alarm">>
PF1_VALUES == <<15, 4, 6, 8, 12>>
PF1_17A_CHOICES == <<"None", "Monitor", "Scan", "Scramble">>
PF1_17A_VALUES == <<15, 4, 6, 8>>
PFKEY_CHOICES == <<"None", "Monitor", "Scan", "Scramble", "VOX", "Alarm">>
PFKEY_VALUES == <<15, 4, 6, 8, 9, 10>>
TOPKEY_CHOICES == <<"None", "Alarming">>
TOPKEY_VALUES == <<255, 12>>

\* list.index(v), counted from 1
IndexOf(list, v) ==
    CHOOSE i \in DOMAIN list : list[i] = v /\ \A j \in 1..(i - 1) : list[j] # v

InList(list, v) == \E i \in DOMAIN list : list[i] = v

\* the index a key setting falls back to: values.index(v), or the
\* exception that evaluating the expression raises
FallbackIndex(values, v) == [exc |-> "none", idx |-> IndexOf(values, v)]
FallbackUndefinedName == [exc |-> "NameError", idx |-> 0]

\* if raw in VALUES: idx = VALUES.index(raw) else: idx = <fallback>;
\* RadioSettingValueList(CHOICES, CHOICES[idx])
KeySetting(name, values, choices, raw, fallback) ==
    IF InList(values, raw)
    THEN [name |-> name, value |-> <<choices[IndexOf(values, raw)]>>, exc |-> "none"]
    ELSE IF fallback.exc # "none"
    THEN [name |-> name, value |-> <<>>, exc |-> fallback.exc]
    ELSE [name |-> name, value |-> <<choices[fallback.idx]>>, exc |-> "none"]

\* get_settings, lines 969-1013: the settings held as list indexes,
\* integers and booleans
DirectEntriesRT21(m, img) ==
    LET u8(a) == img[a + 1] IN
    << ListSetting("tot", TIMEOUTTIMER_LIST, u8(304)),
       ListSetting("totalert", TOTALERT_LIST, u8(305)),
       IntSetting("squelch", 0, 9, u8(308)),
       ListSetting("voice", VOICE_LIST, u8(303)) >>
    \o (IF m = "RB17A" THEN <<ListSetting("alarm", ALARM_LIST, u8(302))>> ELSE <<>>)
    \o << BoolSetting("save", u8(309) # 0),
          BoolSetting("use_scramble", u8(300) # 0),
          BoolSetting("use_vox", u8(313) # 0),
          ListSetting("vox", VOX_LIST, u8(314)) >>
    \o (IF IsRT29(m) THEN <<ListSetting("voxd", VOXD_LIST, u8(315))>> ELSE <<>>)

\* get_settings, lines 1023-1095: the function keys
KeyEntriesRT21(m, img) ==
    LET u8(a) == img[a + 1]
        low(a) == img[a + 1] % 16
    IN  IF m = "RT21"
        THEN << KeySetting("keys.pf1", PF1_VALUES, PF1_CHOICES, low(285),
                           FallbackUndefinedName) >>
        ELSE IF m = "RB17A"
        THEN << KeySetting("keys.pf1", PF1_17A_VALUES, PF1_17A_CHOICES, u8(285),
                           FallbackUndefinedName),
                KeySetting("keys.topkey", TOPKEY_VALUES, TOPKEY_CHOICES, u8(286),
                           FallbackIndex(TOPKEY_VALUES, 12)) >>
        ELSE << KeySetting("keys.pf1", PFKEY_VALUES, PFKEY_CHOICES, low(285),
                           FallbackIndex(PFKEY_VALUES, 4)),
                KeySetting("keys.pf2", PFKEY_VALUES, PFKEY_CHOICES, low(286),
                           FallbackIndex(PFKEY_VALUES, 10)) >>

\* the settings tree built from the entries, or the exception of the
\* first entry that cannot be built
SettingsTree(entries) ==
    LET bad == {i \in DOMAIN entries : entries[i].exc # "none"}
        first == CHOOSE i \in bad : \A j \in bad : i <= j
    IN  IF bad = {}
        THEN [exc |-> "none",
              settings |-> [i \in DOMAIN entries |->
                              <<entries[i].name, entries[i].value>>]]
        ELSE [exc |-> entries[first].exc, settings |-> <<>>]

\* get_settings, lines 965-1095
SettingsRT21(m, img) ==
    SettingsTree(DirectEntriesRT21(m, img) \o KeyEntriesRT21(m, img))

\* get_settings
GetSettings(m, img) ==
    IF m = "RB26" \/ m = "RT76" THEN SettingsRB26RT76(m, img)
    ELSE SettingsRT21(m, img)


---------------------------------------------------------------------------
(* What the device may answer *)

\* answers to one magic string: ACK, NUL ACK, NAK, NUL NAK, nothing, failure
MagicReplies == {<<CMD_ACK>>, <<0, CMD_ACK>>, <<21>>, <<0, 21>>, Raise}

\* a reply after which the device has nothing new to say: once it has
\* acknowledged (or the link has failed) it keeps acknowledging
Settled(rep) == rep \in {<<CMD_ACK>>, <<0, CMD_ACK>>, Raise}

Scripts ==
    {s \in [1..MaxTries -> MagicReplies] :
        \A i, j \in 1..MaxTries : (i < j /\ Settled(s[i])) => s[j] = <<CMD_ACK>>}

IdentReplies(m) ==
    {fingerprint(m), fingerprint(IF m = "RT21" THEN "RB17A" ELSE "RT21"),
     Take(fingerprint(m), 7), Raise}

AckReplies == {<<CMD_ACK>>, <<21>>, <<>>, Raise}

DevBlock(s, a, n) == [i \in 1..n |-> DevByte(s, a + i - 1)]

\* answers to a read request for n bytes at a
ReadReplies(s, a, n) ==
    {Pack(CH_W, a, n) \o DevBlock(s, a, n),
     Pack(CH_R, a, n) \o DevBlock(s, a, n),
     Pack(CH_W, (a + n) % 65536, n) \o DevBlock(s, a, n),
     <<>>, Raise}

---------------------------------------------------------------------------
(* Clone operations, one step per serial exchange group *)

NoStatus == [cur |-> 0, max |-> 0, moved |-> 0]

Init ==
    /\ model \in Models
    /\ seed \in 0..(NumSeeds - 1)
    /\ mmap = LocalImage(model, seed)
    /\ pc = "idle"
    /\ op = "none"
    /\ idx = 1
    /\ data = <<>>
    /\ sent = <<>>
    /\ lastIO = <<>>
    /\ lastAct = "none"
    /\ status = NoStatus
    /\ entered = FALSE
    /\ raised = "none"
    /\ result = "none"
    /\ arg = NoMem
    /\ got = NoMem

\* an exception leaves do_download and reaches the caller through sync_in
FailIn(exc) ==
    /\ pc' = "done"
    /\ raised' = exc
    /\ result' = SyncInCatch(exc)

FailOut(exc) ==
    /\ pc' = "done"
    /\ raised' = exc
    /\ result' = SyncOutCatch(exc)

\* sync_in -> do_download -> _enter_programming_mode
DownloadEnter ==
    /\ pc = "idle"
    /\ \E script \in Scripts, identRep \in IdentReplies(model), echoRep \in AckReplies :
         LET r == EnterProgrammingMode(model, script, identRep, echoRep) IN
         /\ lastIO' = r.io
         /\ sent' = sent \o WritesOf(r.io)
         /\ entered' = (r.exc = "none")
         /\ IF r.exc = "none"
            THEN pc' = "download" /\ UNCHANGED <<raised, result>>
            ELSE FailIn(r.exc)
    /\ op' = "sync_in"
    /\ lastAct' = "enter"
    /\ idx' = 1
    /\ data' = <<>>
    /\ status' = [cur |-> 0, max |-> memsize(model), moved |-> 0]
    /\ UNCHANGED <<model, seed, mmap>>
    /\ UNCHANGED codecVars

\* one iteration of do_download's loop
DownloadBlock ==
    /\ pc = "download"
    /\ idx <= Len(DownloadAddrs(model))
    /\ LET addr == DownloadAddrs(model)[idx]
           bs == BLOCK_SIZE(model)
       IN  /\ status' = [cur |-> addr + bs, max |-> memsize(model),
                         moved |-> Len(data)]
           /\ \E resp \in ReadReplies(seed, addr, bs), ackRep \in AckReplies :
                LET r == IF model = "RB26" \/ model = "RT76"
                         THEN Rb26ReadBlock(addr, bs, resp, ackRep)
                         ELSE ReadBlock(addr, bs, resp, ackRep)
                IN  /\ lastIO' = r.io
                    /\ sent' = sent \o WritesOf(r.io)
                    /\ IF r.exc = "none"
                       THEN /\ data' = data \o r.block
                            /\ idx' = idx + 1
                            /\ UNCHANGED <<pc, raised, result>>
                       ELSE /\ FailIn(r.exc)
                            /\ UNCHANGED <<data, idx>>
    /\ lastAct' = "read"
    /\ UNCHANGED <<model, seed, mmap, op, entered>>
    /\ UNCHANGED codecVars

\* the image stored whether or not the exit step succeeded
DownloadExitStoreAlways ==
    /\ pc = "download"
    /\ idx > Len(DownloadAddrs(model))
    /\ \E wok \in BOOLEAN :
         LET r == ExitProgrammingMode(wok) IN
         /\ lastIO' = r.io
         /\ sent' = sent \o WritesOf(r.io)
         /\ mmap' = data
         /\ IF r.exc = "none"
            THEN /\ pc' = "done"
                 /\ result' = "ok"
                 /\ UNCHANGED raised
            ELSE FailIn(r.exc)
    /\ lastAct' = "exit"
    /\ UNCHANGED <<model, seed, op, idx, data, status, entered>>
    /\ UNCHANGED codecVars

\* the loop is over: _exit_programming_mode, then sync_in stores the image
DownloadExit ==
    /\ pc = "download"
    /\ idx > Len(DownloadAddrs(model))
    /\ \E wok \in BOOLEAN :
         LET r == ExitProgrammingMode(wok) IN
         /\ lastIO' = r.io
         /\ sent' = sent \o WritesOf(r.io)
         /\ IF r.exc = "none"
            THEN /\ mmap' = data
                 /\ pc' = "done"
                 /\ result' = "ok"
                 /\ UNCHANGED raised
            ELSE /\ FailIn(r.exc)
                 /\ UNCHANGED mmap
    /\ lastAct' = "exit"
    /\ UNCHANGED <<model, seed, op, idx, data, status, entered>>
    /\ UNCHANGED codecVars

\* sync_out -> do_upload -> _enter_programming_mode
UploadEnter ==
    /\ pc = "idle"
    /\ \E script \in Scripts, identRep \in IdentReplies(model), echoRep \in AckReplies :
         LET r == EnterProgrammingMode(model, script, identRep, echoRep) IN
         /\ lastIO' = r.io
         /\ sent' = sent \o WritesOf(r.io)
         /\ entered' = (r.exc = "none")
         /\ IF r.exc = "none"
            THEN pc' = "upload" /\ UNCHANGED <<raised, result>>
            ELSE FailOut(r.exc)
    /\ op' = "sync_out"
    /\ lastAct' = "enter"
    /\ idx' = 1
    /\ status' = [cur |-> 0, max |-> memsize(model), moved |-> 0]
    /\ UNCHANGED <<model, seed, mmap, data>>
    /\ UNCHANGED codecVars

\* one iteration of do_upload's inner loop
UploadBlock ==
    /\ pc = "upload"
    /\ idx <= Len(UploadAddrs(model))
    /\ LET addr == UploadAddrs(model)[idx]
           bs == BLOCK_SIZE_UP(model)
       IN  /\ status' = [cur |-> addr + bs, max |-> memsize(model),
                         moved |-> (idx - 1) * bs]
           /\ \E rep \in AckReplies :
                LET r == WriteBlock(mmap, addr, bs, rep) IN
                /\ lastIO' = r.io
                /\ sent' = sent \o WritesOf(r.io)
                /\ IF r.exc = "none"
                   THEN idx' = idx + 1 /\ UNCHANGED <<pc, raised, result>>
                   ELSE FailOut(r.exc) /\ UNCHANGED idx
    /\ lastAct' = "write"
    /\ UNCHANGED <<model, seed, mmap, op, data, entered>>
    /\ UNCHANGED codecVars

UploadExit ==
    /\ pc = "upload"
    /\ idx > Len(UploadAddrs(model))
    /\ \E wok \in BOOLEAN :
         LET r == ExitProgrammingMode(wok) IN
         /\ lastIO' = r.io
         /\ sent' = sent \o WritesOf(r.io)
         /\ IF r.exc = "none"
            THEN pc' = "done" /\ result' = "ok" /\ UNCHANGED raised
            ELSE FailOut(r.exc)
    /\ lastAct' = "exit"
    /\ UNCHANGED <<model, seed, mmap, op, idx, data, status, entered>>
    /\ UNCHANGED codecVars

Next ==
    \/ DownloadEnter
    \/ DownloadBlock
    \/ DownloadExit
    \/ UploadEnter
    \/ UploadBlock
    \/ UploadExit

Spec == Init /\ [][Next]_vars

---------------------------------------------------------------------------
(* The channel editor: Memory objects handed to set_memory *)

\* frequencies offered for channel n, inside VALID_BANDS (on the GMRS
\* models the frequency is the one assigned to n)
ChanFreqs(m, n) ==
    IF gmrs(m) THEN {GMRS_FREQ[n] * 10}
    ELSE IF m = "RT29_VHF" THEN {146520000, 155000000}
    ELSE {462562500, 446006250}

\* a new Memory for channel n at frequency f
Base(n, f) == [NewMemory EXCEPT !.number = n, !.freq = f, !.offset = 0]

\* rf.valid_tmodes and rf.valid_cross_modes, with tones and codes
ToneVariants(b) ==
    { b,
      [b EXCEPT !.tmode = "Tone", !.rtone = 1000],
      [b EXCEPT !.tmode = "TSQL", !.ctone = 1000],
      [b EXCEPT !.tmode = "DTCS", !.dtcs = 23],
      [b EXCEPT !.tmode = "DTCS", !.dtcs = 754, !.dtcs_polarity = <<"R", "N">>],
      [b EXCEPT !.tmode = "Cross", !.cross_mode = <<"Tone", "Tone">>,
                !.rtone = 1000, !.ctone = 885],
      [b EXCEPT !.tmode = "Cross", !.cross_mode = <<"Tone", "DTCS">>,
                !.rtone = 1000, !.rx_dtcs = 23],
      [b EXCEPT !.tmode = "Cross", !.cross_mode = <<"DTCS", "Tone">>,
                !.dtcs = 23, !.ctone = 1000],
      [b EXCEPT !.tmode = "Cross", !.cross_mode = <<"", "Tone">>, !.ctone = 1000],
      [b EXCEPT !.tmode = "Cross", !.cross_mode = <<"", "DTCS">>, !.rx_dtcs = 23],
      [b EXCEPT !.tmode = "Cross", !.cross_mode = <<"DTCS", "">>, !.dtcs = 23,
                !.dtcs_polarity = <<"R", "N">>],
      [b EXCEPT !.tmode = "Cross", !.cross_mode = <<"DTCS", "DTCS">>,
                !.dtcs = 23, !.rx_dtcs = 754] }

\* rf.valid_duplexes, with offsets
DuplexVariants(b) ==
    { b,
      [b EXCEPT !.duplex = "+", !.offset = 400000],
      [b EXCEPT !.duplex = "-", !.offset = 5000000],
      [b EXCEPT !.duplex = "split", !.offset = b.freq + 5000000],
      [b EXCEPT !.duplex = "split", !.offset = b.freq],
      [b EXCEPT !.duplex = "off"] }

\* rf.valid_power_levels
PowerSet(m) == {POWER_LEVELS(m)[i] : i \in DOMAIN POWER_LEVELS(m)}

\* rf.valid_skips
SkipSet(m) == IF m = "RT76" THEN {""} ELSE {"", "S"}

\* mem.extra: none for a new Memory, else the group get_memory builds
ExtraSet(m) ==
    {NoExtra} \cup
    { [bcl |-> IF HasField(m, "bcl")
                 THEN (IF hi THEN Pow2(Field(m, "bcl").bits) \div 2 ELSE 0)
                 ELSE -1,
       scramble_type |-> IF HasField(m, "scramble_type")
                           THEN (IF hi THEN 8 ELSE 1) ELSE -1,
       cdcss |-> IF HasField(m, "cdcss") THEN B2N(hi) ELSE -1,
       compander |-> IF HasField(m, "compander") THEN B2N(hi) ELSE -1]
      : hi \in BOOLEAN }

\* channel numbers the editor works on
Numbers(m) == {1, 9, upper(m)} \cup (IF m = "RB17A" THEN {17} ELSE {})

\* non-empty Memory objects for channel n
Channels(m, n) ==
    LET f0 == CHOOSE f \in ChanFreqs(m, n) : \A g \in ChanFreqs(m, n) : f >= g
        b0 == [Base(n, f0) EXCEPT !.power = POWER_LEVELS(m)[1]]
    IN  { [t EXCEPT !.power = p] : t \in ToneVariants(b0), p \in PowerSet(m) }
        \cup
        { [d EXCEPT !.mode = md, !.skip = sk] :
            d \in UNION {DuplexVariants([b0 EXCEPT !.freq = f]) : f \in ChanFreqs(m, n)},
            md \in {"FM", "NFM"}, sk \in SkipSet(m) }
        \cup
        { [b0 EXCEPT !.extra = ex] : ex \in ExtraSet(m) }

\* an empty Memory for channel n
EmptyChannel(n) == [NewMemory EXCEPT !.number = n, !.empty = TRUE]

---------------------------------------------------------------------------
(* One write followed by one read of the same channel *)

CodecInit ==
    /\ model \in Models
    /\ seed \in 0..(NumSeeds - 1)
    /\ mmap = CodecImage(model, seed)
    /\ pc = "edit"
    /\ op = "edit"
    /\ idx = 0
    /\ data = <<>>
    /\ sent = <<>>
    /\ lastIO = <<>>
    /\ lastAct = "none"
    /\ status = NoStatus
    /\ entered = FALSE
    /\ raised = "none"
    /\ result = "none"
    /\ arg = NoMem
    /\ got = NoMem

\* set_memory(mem) for a non-empty Memory
SetMemoryStep ==
    /\ pc = "edit"
    /\ \E n \in Numbers(model) : \E mem \in Channels(model, n) :
         /\ arg' = mem
         /\ mmap' = SetMemory(model, mmap, mem)
    /\ pc' = "written"
    /\ lastAct' = "set_memory"
    /\ UNCHANGED <<model, seed, op, idx, data, sent, lastIO, status, entered,
                   raised, result, got>>

\* set_memory(mem) for an empty Memory
SetEmptyStep ==
    /\ pc = "edit"
    /\ \E n \in 1..upper(model) :
         /\ arg' = EmptyChannel(n)
         /\ mmap' = SetMemory(model, mmap, EmptyChannel(n))
    /\ pc' = "written"
    /\ lastAct' = "set_empty"
    /\ UNCHANGED <<model, seed, op, idx, data, sent, lastIO, status, entered,
                   raised, result, got>>

\* get_memory(number) of the channel just written
GetMemoryStep ==
    /\ pc = "written"
    /\ LET r == GetMemory(model, mmap, arg.number) IN
         /\ got' = r.mem
         /\ mmap' = r.img
         /\ raised' = r.exc
    /\ pc' = "read"
    /\ lastAct' = "get_memory"
    /\ UNCHANGED <<model, seed, op, idx, data, sent, lastIO, status, entered,
                   result, arg>>

CodecNext ==
    \/ SetMemoryStep
    \/ SetEmptyStep
    \/ GetMemoryStep

CodecSpec == CodecInit /\ [][CodecNext]_vars

---------------------------------------------------------------------------
(* An editing session: any sequence of writes and reads *)

\* the channels of the session: their records carry settings in the
\* reserved bytes of the RB26 / RT76 layouts
EditNumbers == {3, 7}

\* what the session writes to channel n
EditChannels(m, n) ==
    LET f0 == CHOOSE f \in ChanFreqs(m, n) : \A g \in ChanFreqs(m, n) : f >= g
        b0 == [Base(n, f0) EXCEPT !.power = POWER_LEVELS(m)[1]]
        hi == CHOOSE ex \in ExtraSet(m) : ex # NoExtra /\ ex.compander # 0
    IN  { EmptyChannel(n), b0,
          [b0 EXCEPT !.tmode = "DTCS", !.dtcs = 754,
                     !.dtcs_polarity = <<"R", "R">>, !.mode = "NFM",
                     !.skip = IF m = "RT76" THEN "" ELSE "S", !.extra = hi] }

EditInit ==
    /\ model \in Models
    /\ seed \in 0..(NumSeeds - 1)
    /\ mmap = CodecImage(model, seed)
    /\ pc = "session"
    /\ op = "edit"
    /\ idx = 0
    /\ data = <<>>
    /\ sent = <<>>
    /\ lastIO = <<>>
    /\ lastAct = "none"
    /\ status = NoStatus
    /\ entered = FALSE
    /\ raised = "none"
    /\ result = "none"
    /\ arg = NoMem
    /\ got = NoMem

\* set_memory(mem)
EditSet ==
    /\ pc = "session"
    /\ \E n \in EditNumbers : \E mem \in EditChannels(model, n) :
         /\ arg' = mem
         /\ mmap' = SetMemory(model, mmap, mem)
    /\ got' = NoMem
    /\ raised' = "none"
    /\ lastAct' = "set_memory"
    /\ UNCHANGED <<model, seed, pc, op, idx, data, sent, lastIO, status, entered,
                   result>>

\* get_memory(number)
EditGet ==
    /\ pc = "session"
    /\ \E n \in EditNumbers :
         LET r == GetMemory(model, mmap, n) IN
         /\ got' = r.mem
         /\ mmap' = r.img
         /\ raised' = r.exc
    /\ arg' = NoMem
    /\ lastAct' = "get_memory"
    /\ UNCHANGED <<model, seed, pc, op, idx, data, sent, lastIO, status, entered,
                   result>>

EditNext ==
    \/ EditSet
    \/ EditGet

EditSpec == EditInit /\ [][EditNext]_vars

---------------------------------------------------------------------------
(* Properties of the clone operations *)

CmdIdx(c) == {i \in DOMAIN sent : sent[i].cmd = c}

IsR(e) == e.cmd = "R"
IsW(e) == e.cmd = "W"

\* the addresses of the read (write) frames sent so far, in sending order
ReadAddrsSent == LET s == SelectSeq(sent, IsR) IN [i \in DOMAIN s |-> s[i].addr]
WriteAddrsSent == LET s == SelectSeq(sent, IsW) IN [i \in DOMAIN s |-> s[i].addr]

SetMax(S) == CHOOSE x \in S : \A y \in S : y <= x
SetMin(S) == CHOOSE x \in S : \A y \in S : x <= y

\* C1: in download and upload, a failure after programming mode was
\* entered still has the exit byte 'E' written exactly once before the
\* error reaches the caller.
C1_ExitOnFailure ==
    (pc = "done" /\ entered /\ result # "ok") => Cardinality(CmdIdx("E")) = 1

\* positions of the magic writes of a step
MagicIdx(io) == {i \in DOMAIN io : io[i].t = "w" /\ io[i].bytes = magic(model)}

\* the bytes read after the write at position i acknowledge it: ACK, or a
\* null byte and then ACK
Acked(io, i) ==
    /\ i + 1 <= Len(io)
    /\ io[i + 1].t = "r"
    /\ \/ io[i + 1].bytes = <<6>>
       \/ /\ io[i + 1].bytes = <<0>>
          /\ i + 2 <= Len(io)
          /\ io[i + 2].t = "r"
          /\ io[i + 2].bytes = <<6>>

\* position of the event that follows the answer to the write at i
AfterAnswer(io, i) ==
    IF i + 1 <= Len(io) /\ io[i + 1].bytes = <<0>> THEN i + 3 ELSE i + 2

\* C2: the magic handshake is sent at most 5 times and retrying stops at
\* the first acknowledged attempt: every magic but the last went
\* unacknowledged; when the last one is acknowledged the identification
\* request follows it; when it is not, the operation fails and neither an
\* identification request nor a block command is ever sent.
C2_MagicRetries ==
    /\ Cardinality(CmdIdx("MAGIC")) <= 5
    /\ (CmdIdx("R") \cup CmdIdx("W") \cup CmdIdx("ID")) # {} => CmdIdx("MAGIC") # {}
    /\ lastAct = "enter" =>
         LET mi == MagicIdx(lastIO)
             last == SetMax(mi)
         IN  /\ mi # {}
             /\ Cardinality(mi) = Cardinality(CmdIdx("MAGIC"))
             /\ \A i \in mi : i # last => ~Acked(lastIO, i)
             /\ Acked(lastIO, last) =>
                  /\ AfterAnswer(lastIO, last) <= Len(lastIO)
                  /\ lastIO[AfterAnswer(lastIO, last)].t = "w"
                  /\ lastIO[AfterAnswer(lastIO, last)].bytes = <<2>>
             /\ ~Acked(lastIO, last) =>
                  /\ pc = "done"
                  /\ result = "RadioError"
                  /\ ~entered
                  /\ (CmdIdx("ID") \cup CmdIdx("R") \cup CmdIdx("W")) = {}
                  /\ (\A i \in DOMAIN lastIO : lastIO[i].ok) => Cardinality(mi) = 5

\* the device withholds the ACK three times and grants it on the 4th attempt
C2_Witness ==
    /\ lastAct = "enter"
    /\ entered
    /\ Cardinality(MagicIdx(lastIO)) = 4
    /\ pc \in {"download", "upload"}

\* C3: after the acknowledged magic the engine sends 0x02 and reads 8
\* identification bytes; on a mismatch the handshake fails, no ACK is sent
\* and no block command is issued; on a match it sends ACK and fails unless
\* ACK is read back; block commands only follow magic-ACK, identification
\* match and ACK echo, in that order.
C3_Identification ==
    /\ (CmdIdx("R") \cup CmdIdx("W")) # {} =>
         LET f == SetMin(CmdIdx("R") \cup CmdIdx("W")) IN
         /\ entered
         /\ f > 3
         /\ sent[f - 1].cmd = "ACK"
         /\ sent[f - 2].cmd = "ID"
         /\ sent[f - 3].cmd = "MAGIC"
    /\ (lastAct = "enter" /\ CmdIdx("ID") # {}) =>
         LET j == CHOOSE i \in DOMAIN lastIO :
                      lastIO[i].t = "w" /\ lastIO[i].bytes = <<2>>
         IN  /\ Cardinality(CmdIdx("ID")) = 1
             /\ Acked(lastIO, SetMax(MagicIdx(lastIO)))
             /\ j + 1 <= Len(lastIO)
             /\ lastIO[j + 1].t = "r"
             /\ lastIO[j + 1].n = 8
             /\ IF lastIO[j + 1].bytes # fingerprint(model)
                THEN /\ Len(lastIO) = j + 1
                     /\ CmdIdx("ACK") = {}
                     /\ ~entered
                     /\ pc = "done"
                     /\ result = "RadioError"
                ELSE /\ Len(lastIO) = j + 3
                     /\ lastIO[j + 2].t = "w"
                     /\ lastIO[j + 2].bytes = <<6>>
                     /\ lastIO[j + 3].t = "r"
                     /\ entered <=> (lastIO[j + 3].bytes = <<6>>)
                     /\ ~entered => (pc = "done" /\ result = "RadioError")

\* a device of another model answers the identification request
C3_Witness ==
    /\ lastAct = "enter"
    /\ CmdIdx("ID") # {}
    /\ Len(lastIO[Len(lastIO)].bytes) = 8
    /\ lastIO[Len(lastIO)].bytes # fingerprint(model)
    /\ result = "RadioError"

InDeclaredRange(m, a, n) ==
    \E i \in DOMAIN ranges(m) : ranges(m)[i][1] <= a /\ a + n <= ranges(m)[i][2]

\* C4: every write frame of an upload covers a block of write_block_size
\* bytes lying wholly inside a declared range, blocks go out in ascending
\* address order and each once, the payload is the image at that block, and
\* a completed upload has sent exactly the blocks of the declared ranges.
C4_UploadRanges ==
    /\ \A i \in CmdIdx("W") :
         /\ sent[i].len = BLOCK_SIZE_UP(model)
         /\ InDeclaredRange(model, sent[i].addr, sent[i].len)
    /\ LET w == WriteAddrsSent IN
         \A i \in 1..(Len(w) - 1) : w[i] < w[i + 1]
    /\ lastAct = "write" =>
         LET fr == lastIO[1].bytes
             a == Summary(fr).addr
             n == Summary(fr).len
         IN  /\ lastIO[1].t = "w"
             /\ Summary(fr).cmd = "W"
             /\ Len(fr) = 4 + n
             /\ \A k \in 1..n : fr[4 + k] = mmap[a + k]
    /\ (op = "sync_out" /\ result = "ok") =>
         LET w == WriteAddrsSent IN
         {w[i] : i \in DOMAIN w} =
             {a \in 0..(memsize(model) - 1) :
                 a % 16 = 0 /\ InDeclaredRange(model, a, 16)}

\* an RT29 upload has completed: the image is 0x400 long, the range 0x300
C4_Witness ==
    /\ op = "sync_out"
    /\ result = "ok"
    /\ model = "RT29_UHF"
    /\ Len(mmap) = 1024
    /\ Len(WriteAddrsSent) = 48

Mismatch(io) ==
    \E i \in 2..Len(io) :
        /\ io[i].t = "r"
        /\ io[i - 1].t = "w"
        /\ LET w == Summary(io[i - 1].bytes) IN
           \/ /\ w.cmd = "R"
              /\ Take(io[i].bytes, 4) # <<87>> \o Tail(io[i - 1].bytes)
           \/ /\ w.cmd \in {"ACK", "W"}
              /\ io[i].bytes # <<6>>

BlockFailed == lastAct \in {"read", "write"} /\ Mismatch(lastIO)

\* C6: after the first failed block (read header not echoed, read ACK not
\* echoed, write not answered by ACK) no further frame is sent and the
\* caller gets a RadioError, never a success or a partial image.
C6_BlockFailureAborts ==
    /\ [](BlockFailed =>
            /\ pc = "done"
            /\ result = "RadioError"
            /\ mmap = LocalImage(model, seed))
    /\ [][BlockFailed => sent' = sent]_vars

\* the third block of a download is read but the ACK is not echoed
C6_Witness ==
    /\ BlockFailed
    /\ op = "sync_in"
    /\ idx = 3
    /\ raised = "Exception"

\* C7: one request in flight: in every step each write other than the exit
\* byte is directly followed by the read of its response, before any other
\* write; the exit byte is the only write with no read after it.
C7_OneInFlight ==
    /\ lastIO # <<>> => lastIO[1].t = "w"
    /\ \A i \in DOMAIN lastIO :
         lastIO[i].t = "w" =>
            IF lastIO[i].bytes = <<69>>
            THEN i = Len(lastIO)
            ELSE i < Len(lastIO) /\ lastIO[i + 1].t = "r"

\* the RB26 read of block 0, which has no ACK exchange, is followed by the
\* read command of the next block
C7_Witness ==
    /\ model = "RB26"
    /\ lastAct = "read"
    /\ pc = "download"
    /\ idx = 3
    /\ Len(lastIO) = 4

---------------------------------------------------------------------------
(* Validation of a Memory before it is stored *)

\* channel numbers at the edges of the GMRS ranges
ValidateNumbers(m) == {n \in {1, 7, 8, 10, 14, 15, 22, 23, 30} : n <= upper(m)}

\* what the editor may ask to validate for channel n
ValidateChannels(m, n) ==
    LET f0 == IF gmrs(m) THEN GMRS_HZ[n]
              ELSE CHOOSE f \in ChanFreqs(m, n) : \A g \in ChanFreqs(m, n) : f >= g
    IN  { [Base(n, f) EXCEPT !.duplex = dx, !.offset = off, !.mode = md,
                             !.power = p] :
            f \in {f0, f0 + 12500}, dx \in {"", "+", "-"},
            off \in {0, 600000, 5000000}, md \in {"FM", "NFM"},
            p \in PowerSet(m) }

ValidateInit ==
    /\ model \in Models
    /\ seed \in 0..(NumSeeds - 1)
    /\ mmap = CodecImage(model, seed)
    /\ pc = "edit"
    /\ op = "edit"
    /\ idx = 0
    /\ data = <<>>
    /\ sent = <<>>
    /\ lastIO = <<>>
    /\ lastAct = "none"
    /\ status = NoStatus
    /\ entered = FALSE
    /\ raised = "none"
    /\ result = <<>>
    /\ arg = NoMem
    /\ got = NoMem

\* validate_memory(mem): result holds the messages returned
ValidateStep ==
    /\ pc = "edit"
    /\ \E n \in ValidateNumbers(model) : \E mem \in ValidateChannels(model, n) :
         /\ arg' = mem
         /\ result' = ValidateMemory(model, mem)
    /\ pc' = "validated"
    /\ lastAct' = "validate_memory"
    /\ UNCHANGED <<model, seed, mmap, op, idx, data, sent, lastIO, status,
                   entered, raised, got>>

ValidateNext == ValidateStep

ValidateSpec == ValidateInit /\ [][ValidateNext]_vars


---------------------------------------------------------------------------
(* Decoding the settings of a loaded image *)

\* offsets of the keys struct
KeyAddrs(m) ==
    IF m = "RT21" THEN {285}
    ELSE IF m = "RB26" \/ m = "RT76" THEN {}
    ELSE {285, 286}

\* one stored byte of the image set to any value, or none (offset -1)
Overrides(m) == {<<-1, 0>>} \cup (KeyAddrs(m) \X (0..255))

\* the image loaded: an editor image with the override applied
SettingsImage(m, s, ov) ==
    IF ov[1] < 0 THEN CodecImage(m, s)
    ELSE [CodecImage(m, s) EXCEPT ![ov[1] + 1] = ov[2]]

SettingsInit ==
    /\ model \in Models
    /\ seed \in 0..(NumSeeds - 1)
    /\ \E ov \in Overrides(model) : mmap = SettingsImage(model, seed, ov)
    /\ pc = "loaded"
    /\ op = "settings"
    /\ idx = 0
    /\ data = <<>>
    /\ sent = <<>>
    /\ lastIO = <<>>
    /\ lastAct = "none"
    /\ status = NoStatus
    /\ entered = FALSE
    /\ raised = "none"
    /\ result = <<>>
    /\ arg = NoMem
    /\ got = NoMem

\* get_settings(): result holds the settings tree, raised the exception
GetSettingsStep ==
    /\ pc = "loaded"
    /\ LET r == GetSettings(model, mmap) IN
         /\ result' = r.settings
         /\ raised' = r.exc
    /\ pc' = "decoded"
    /\ lastAct' = "get_settings"
    /\ UNCHANGED <<model, seed, mmap, op, idx, data, sent, lastIO, status,
                   entered, arg, got>>

SettingsNext == GetSettingsStep

SettingsSpec == SettingsInit /\ [][SettingsNext]_vars


---------------------------------------------------------------------------
(* Reading a channel record of a loaded image *)

\* raw values of tx_tone / rx_tone: none, analog tones (0, 67.0 Hz,
\* 100.0 Hz and the largest, 0x2000), DCS from 0x2001 up (code 023 normal
\* and reversed, code 754 normal)
ToneCodes == {65535, 0, 670, 1000, 8192, 8193, 10259, 43027, 10732}

\* stored rxfreq values with the raw bytes of txfreq next to them: equal,
\* above, below, zero, and the four 0xFF bytes
RawFreqs ==
    { <<14652000, IntToLbcd(14652000)>>, <<14652000, IntToLbcd(14692000)>>,
      <<46256250, IntToLbcd(45756250)>>, <<46256250, IntToLbcd(0)>>,
      <<44600625, Rep(255, 4)>> }

\* a record of the memory struct: rxfreq, txfreq, rx_tone, tx_tone, and
\* the remaining bytes as set_memory resets them
RawRecord(m, rsvd, rx, txbytes, rx_tone, tx_tone) ==
    IntToLbcd(rx) \o txbytes \o IntToUl16(rx_tone) \o IntToUl16(tx_tone)
        \o SubSeq(DefaultRecord(m, rsvd), 13, RecLen)

\* channel numbers read
DecodeNumbers(m) == {1, upper(m)}

\* the records read: every pair of tone codes on a simplex channel, every
\* frequency pair without and with a tone, and every value of the power
\* field (-1: as the record is reset)
DecodeCases(m) ==
    LET f0 == <<14652000, IntToLbcd(14652000)>> IN
    { <<f0, rt, tt, -1>> : rt \in ToneCodes, tt \in ToneCodes }
    \cup
    { <<f, 65535, tt, -1>> : f \in RawFreqs, tt \in {65535, 1000} }
    \cup
    { <<f0, 65535, 65535, p>> : p \in 0..(IF IsRT29(m) THEN 3 ELSE 1) }

DecodeInit ==
    /\ model \in Models
    /\ seed \in 0..(NumSeeds - 1)
    /\ \E n \in DecodeNumbers(model) : \E c \in DecodeCases(model) :
       \E img \in {CodecImage(model, seed)} :
       \E rec \in {RawRecord(model, GetRaw(img, MemBase(model, n) + 13, 3),
                              c[1][1], c[1][2], c[2], c[3])} :
       \E img1 \in {SetRaw(img, MemBase(model, n), rec)} :
       \E img2 \in {IF c[4] < 0 THEN img1
                     ELSE SetField(img1, MemBase(model, n),
                                   Field(model, IF IsRT29(model) THEN "txpower"
                                                ELSE "highpower"), c[4])} :
         /\ idx = n
         /\ data = GetRaw(img2, MemBase(model, n), RecLen)
         /\ mmap = img2
    /\ pc = "stored"
    /\ op = "edit"
    /\ sent = <<>>
    /\ lastIO = <<>>
    /\ lastAct = "none"
    /\ status = NoStatus
    /\ entered = FALSE
    /\ raised = "none"
    /\ result = "none"
    /\ arg = NoMem
    /\ got = NoMem

\* get_memory(number) on the loaded image
DecodeStep ==
    /\ pc = "stored"
    /\ LET r == GetMemory(model, mmap, idx) IN
         /\ got' = r.mem
         /\ mmap' = r.img
         /\ raised' = r.exc
    /\ pc' = "decoded"
    /\ lastAct' = "get_memory"
    /\ UNCHANGED <<model, seed, op, idx, data, sent, lastIO, status, entered,
                   result, arg>>

\* set_memory(mem) with the Memory that get_memory returned
RewriteStep ==
    /\ pc = "decoded"
    /\ raised = "none"
    /\ arg' = got
    /\ mmap' = SetMemory(model, mmap, got)
    /\ pc' = "rewritten"
    /\ lastAct' = "set_memory"
    /\ UNCHANGED <<model, seed, op, idx, data, sent, lastIO, status, entered,
                   raised, result, got>>

DecodeNext ==
    \/ DecodeStep
    \/ RewriteStep

DecodeSpec == DecodeInit /\ [][DecodeNext]_vars


---------------------------------------------------------------------------
(* Properties of the channel codec *)

\* the tone fields that the tone mode of c makes meaningful agree in c and d
SameTone(c, d) ==
    /\ d.tmode = c.tmode
    /\ c.tmode = "Tone" => d.rtone = c.rtone
    /\ c.tmode = "TSQL" => d.ctone = c.ctone
    /\ c.tmode = "DTCS" => d.dtcs = c.dtcs /\ d.dtcs_polarity = c.dtcs_polarity
    /\ c.tmode = "Cross" =>
         /\ d.cross_mode = c.cross_mode
         /\ c.cross_mode[1] = "Tone" => d.rtone = c.rtone
         /\ c.cross_mode[2] = "Tone" => d.ctone = c.ctone
         /\ c.cross_mode[1] = "DTCS" =>
              d.dtcs = c.dtcs /\ d.dtcs_polarity[1] = c.dtcs_polarity[1]
         /\ c.cross_mode[2] = "DTCS" =>
              d.rx_dtcs = c.rx_dtcs /\ d.dtcs_polarity[2] = c.dtcs_polarity[2]

\* d is the channel c, field by field (a field that the duplex or the tone
\* mode of c leaves without meaning is not compared, nor are extras that c
\* does not carry)
SameChannel(m, c, d) ==
    /\ d.number = c.number
    /\ d.empty = c.empty
    /\ d.freq = c.freq
    /\ d.duplex = c.duplex
    /\ c.duplex \in {"+", "-", "split"} => d.offset = c.offset
    /\ d.mode = c.mode
    /\ SameTone(c, d)
    /\ d.power = c.power
    /\ skipflags(m) => d.skip = c.skip
    /\ c.extra # NoExtra => d.extra = c.extra

\* C8: a valid non-empty channel written with set_memory and read back
\* with get_memory from the same channel number is returned equal in every
\* field, on every model
C8_RoundTrip ==
    (pc = "read" /\ ~arg.empty) =>
        raised = "none" /\ SameChannel(model, arg, got)

\* C9: on every model, an empty channel n written with set_memory is read
\* back by get_memory as a channel marked empty
C9_EmptyIdempotent ==
    (pc = "read" /\ arg.empty) => got.empty

\* C9 as amended: on the models without the GMRS restriction the empty
\* channel is read back empty, with frequency 0; on the GMRS models the
\* write forces the assigned frequency and the channel is read back
\* non-empty at that frequency
C9_EmptyIdempotentUnlessGmrs ==
    (pc = "read" /\ arg.empty) =>
        /\ raised = "none"
        /\ got.number = arg.number
        /\ IF gmrs(model)
           THEN ~got.empty /\ got.freq = GMRS_FREQ[arg.number] * 10
           ELSE got.empty /\ got.freq = 0

\* an empty write over a record that held a channel, read back empty
C9_Witness ==
    /\ pc = "read"
    /\ arg.empty
    /\ ~gmrs(model)
    /\ ~GetMemory(model, CodecImage(model, seed), arg.number).mem.empty
    /\ got.empty

\* the reserved bytes (offsets D-F) of the record of channel n
ReservedOf(m, img, n) == GetRaw(img, MemBase(m, n) + 13, 3)

\* bytes 0-C of the record of channel n
FieldsOf(m, img, n) == GetRaw(img, MemBase(m, n), 13)

\* C10: on RB26 and RT76, whatever channels have been written, empty or
\* not, the reserved bytes of every record are those of the image before
\* the writes and every setting decodes to the value it had before
C10_ReservedPreserved ==
    reserved(model) =>
        /\ \A n \in 1..upper(model) :
             ReservedOf(model, mmap, n) = ReservedOf(model, CodecImage(model, seed), n)
        /\ SettingsRB26RT76(model, mmap)
             = SettingsRB26RT76(model, CodecImage(model, seed))

\* both session channels rewritten, the last write an empty one, over
\* records whose reserved bytes hold settings that decode
C10_Witness ==
    /\ reserved(model)
    /\ lastAct = "set_memory"
    /\ arg.empty
    /\ SettingsRB26RT76(model, mmap).exc = "none"
    /\ \A n \in EditNumbers :
         FieldsOf(model, mmap, n) # FieldsOf(model, CodecImage(model, seed), n)
    /\ \E n \in EditNumbers : ~GetMemory(model, mmap, n).mem.empty
         /\ GetMemory(model, mmap, n).mem.tmode = "DTCS"

\* the channel departs from the GMRS assignment of its number
Departs(c) ==
    \/ c.freq # GMRS_HZ[c.number]
    \/ c.number \in 1..22 /\ c.duplex # ""
    \/ c.number \in 23..30 /\ (c.duplex # "+" \/ c.offset # 5000000)
    \/ c.number \in 8..14 /\ (c.mode # "NFM" \/ c.power # "Low")

\* C11: on a GMRS model validate_memory returns a message exactly when the
\* channel departs from the assignment of its number (frequency; simplex
\* for 1-22; '+' and 5 MHz for 23-30; NFM and Low for 8-14); channel 10
\* with High power gets a message, channel 10 as assigned gets none; the
\* Memory Image is not changed
C11_GmrsValidation ==
    (pc = "validated" /\ gmrs(model)) =>
        /\ (result # <<>>) <=> Departs(arg)
        /\ (arg.number = 10 /\ arg.power = "High") => result # <<>>
        /\ (arg.number = 10 /\ arg.freq = GMRS_HZ[10] /\ arg.duplex = ""
              /\ arg.power = "Low" /\ arg.mode = "NFM") => result = <<>>
        /\ mmap = CodecImage(model, seed)

\* channel 10, as assigned but for High power: the one message about power
C11_Witness ==
    /\ pc = "validated"
    /\ model = "RB17A"
    /\ arg.number = 10
    /\ arg.freq = GMRS_HZ[10] /\ arg.duplex = "" /\ arg.mode = "NFM"
    /\ arg.power = "High"
    /\ result = <<"Memory location only supports Power: Low">>

---------------------------------------------------------------------------
(* Properties of the settings decode *)

HasSetting(tree, name) == \E i \in DOMAIN tree : tree[i][1] = name

\* the value of the setting `name` of a settings tree
SettingValue(tree, name) ==
    LET i == CHOOSE i \in DOMAIN tree : tree[i][1] = name IN tree[i][2][1]

\* every list index, integer and boolean setting of the image is in range
DirectInRange(m, img) ==
    \A i \in DOMAIN DirectEntriesRT21(m, img) :
        DirectEntriesRT21(m, img)[i].exc = "none"

\* the label of raw in the parallel tables, or the default label
TableLabel(values, choices, raw, default) ==
    IF InList(values, raw) THEN choices[IndexOf(values, raw)] ELSE default

\* C12: on RT21, RB17A and the RT29 models, whatever raw value a key field
\* holds, get_settings does not raise and each key setting is the label at
\* the index of the raw value in the values table, or the default label
\* when the raw value is not in the table
C12_KeyFallback ==
    (pc = "decoded" /\ model \notin {"RB26", "RT76"}
        /\ DirectInRange(model, mmap)) =>
        /\ raised = "none"
        /\ HasSetting(result, "keys.pf1")
        /\ SettingValue(result, "keys.pf1") =
             (IF model = "RT21"
                THEN TableLabel(PF1_VALUES, PF1_CHOICES, mmap[286] % 16, "Monitor")
              ELSE IF model = "RB17A"
                THEN TableLabel(PF1_17A_VALUES, PF1_17A_CHOICES, mmap[286], "Monitor")
              ELSE TableLabel(PFKEY_VALUES, PFKEY_CHOICES, mmap[286] % 16, "Monitor"))
        /\ model = "RB17A" =>
             SettingValue(result, "keys.topkey") =
               TableLabel(TOPKEY_VALUES, TOPKEY_CHOICES, mmap[287], "Alarming")
        /\ IsRT29(model) =>
             SettingValue(result, "keys.pf2") =
               TableLabel(PFKEY_VALUES, PFKEY_CHOICES, mmap[287] % 16, "Alarm")

---------------------------------------------------------------------------
(* More properties of the clone operations *)

\* the response to the read command of a step echoes 'W' + address + length
HeaderOk(io) ==
    /\ Len(io) >= 2
    /\ io[2].ok
    /\ Take(io[2].bytes, 4) = <<CH_W>> \o Tail(io[1].bytes)

\* C13: in a download, after every block whose header was verified the
\* engine writes ACK and reads one byte, and goes on to the next read only
\* if that byte is ACK; the one exception is the block at address 0 on
\* RB26 / RT76, after which nothing is written or read
C13_AckAfterRead ==
    (op = "sync_in" /\ lastAct = "read" /\ HeaderOk(lastIO)) =>
        LET a == Summary(lastIO[1].bytes).addr IN
        IF model \in {"RB26", "RT76"} /\ a = 0
        THEN Len(lastIO) = 2 /\ pc = "download"
        ELSE /\ Len(lastIO) = 4
             /\ lastIO[3] = Wr(<<CMD_ACK>>)
             /\ lastIO[4].t = "r" /\ lastIO[4].n = 1
             /\ pc = "download" <=> (lastIO[4].ok /\ lastIO[4].bytes = <<CMD_ACK>>)

\* block 0 of an RT76 read without ACK exchange, the download going on
C13_Witness ==
    /\ model = "RT76"
    /\ op = "sync_in"
    /\ lastAct = "read"
    /\ idx = 2
    /\ Len(lastIO) = 2
    /\ pc = "download"

\* C14: a progress report carrying byte count c is issued only once the
\* block ending at byte c has been read from or written to the device
C14_ProgressAfterTransfer == status.cur <= status.moved

---------------------------------------------------------------------------
(* More properties of the channel codec *)

\* the 16 bytes of the record of channel n
RecordOf(m, img, n) == GetRaw(img, MemBase(m, n), RecLen)

\* C15: when get_memory reads a record whose 16 bytes are all 0xFF it
\* rewrites the tail of the record to the default pattern of the model
\* (keeping the reserved bytes on RB26 / RT76), so the Memory Image differs
\* after the read
C15_LazyInit ==
    [][(lastAct' = "get_memory"
          /\ RecordOf(model, mmap, got'.number) = Rep(255, RecLen)) =>
            /\ mmap' # mmap
            /\ RecordOf(model, mmap', got'.number) # Rep(255, RecLen)
            /\ reserved(model) =>
                 ReservedOf(model, mmap', got'.number)
                   = ReservedOf(model, mmap, got'.number)]_vars

\* C16: an empty channel n written on a GMRS model holds the frequency
\* assigned to n, the same transmit frequency for n <= 22 and 5 MHz more
\* for n >= 23, narrow and low power for 8 <= n <= 14 and wide and high
\* power otherwise; on the other models the record is 16 bytes 0xFF
C16_EmptyWriteGmrs ==
    (pc = "read" /\ arg.empty) =>
        LET n == arg.number
            rec == RecordOf(model, mmap, n)
            rx == LbcdToInt(SubSeq(rec, 1, 4))
            tx == LbcdToInt(SubSeq(rec, 5, 8))
        IN  IF gmrs(model)
            THEN /\ rec # Rep(255, RecLen)
                 /\ rx * 10 = GMRS_HZ[n]
                 /\ tx = IF n <= 22 THEN rx ELSE rx + 500000
                 /\ got.freq = GMRS_HZ[n]
                 /\ got.duplex = IF n <= 22 THEN "" ELSE "+"
                 /\ got.offset = IF n <= 22 THEN 0 ELSE 5000000
                 /\ got.mode = IF n \in 8..14 THEN "NFM" ELSE "FM"
                 /\ got.power = IF n \in 8..14 THEN "Low" ELSE "High"
            ELSE rec = Rep(255, RecLen)

\* channel 23 of an RB26 written empty: read back at +5 MHz, wide, high
C16_Witness ==
    /\ pc = "read"
    /\ arg.empty
    /\ model = "RB26"
    /\ arg.number = 23
    /\ got.freq = 462550000
    /\ got.duplex = "+" /\ got.offset = 5000000
    /\ got.mode = "FM" /\ got.power = "High"

\* the side a raw tone code stands for: none, DCS, or an analog tone
ToneKind(code) ==
    IF code = 65535 THEN "" ELSE IF code > 8192 THEN "DTCS" ELSE "Tone"

\* the raw tx_tone and rx_tone of the record that was read
RawTx == Ul16ToInt(SubSeq(data, 11, 12))
RawRx == Ul16ToInt(SubSeq(data, 9, 10))

\* C17: tone classification on decode, for all raw tx / rx tone codes:
\* tx tone and rx none is "Tone"; equal tones is "TSQL"; equal DCS codes is
\* "DTCS"; any other combination with a side in use is "Cross" labelled
\* "<tx mode>-><rx mode>"; both sides none leaves no tone mode
C17_ToneClassification ==
    (pc = "decoded" /\ raised = "none") =>
        LET tk == ToneKind(RawTx)
            rk == ToneKind(RawRx)
        IN  IF tk = "Tone" /\ rk = ""
                THEN got.tmode = "Tone" /\ got.rtone = RawTx
            ELSE IF tk = "Tone" /\ rk = "Tone" /\ RawTx = RawRx
                THEN got.tmode = "TSQL" /\ got.ctone = RawRx
            ELSE IF tk = "DTCS" /\ rk = "DTCS" /\ RawTx % 2048 = RawRx % 2048
                THEN got.tmode = "DTCS" /\ got.dtcs = OctDigits(RawTx % 2048)
            ELSE IF tk # "" \/ rk # ""
                THEN got.tmode = "Cross" /\ got.cross_mode = <<tk, rk>>
            ELSE got.tmode = ""

\* tx tone 100.0 Hz with rx DCS 023 is read as Cross, Tone->DTCS
C17_Witness ==
    /\ pc = "decoded"
    /\ raised = "none"
    /\ RawTx = 1000
    /\ RawRx = 10259
    /\ got.tmode = "Cross"
    /\ got.cross_mode = <<"Tone", "DTCS">>
    /\ got.rtone = 1000
    /\ got.rx_dtcs = 23

\* C18: whenever a decoded channel carries a DCS code on the transmit or
\* the receive side, the decoded polarity has 'R' for a side whose stored
\* code has bit 15 set and 'N' otherwise, in Cross modes as in DTCS mode
C18_PolarityDecoded ==
    (pc = "decoded" /\ raised = "none") =>
        /\ ToneKind(RawTx) = "DTCS" =>
             got.dtcs_polarity[1] = (IF RawTx >= 32768 THEN "R" ELSE "N")
        /\ ToneKind(RawRx) = "DTCS" =>
             got.dtcs_polarity[2] = (IF RawRx >= 32768 THEN "R" ELSE "N")

\* the stored values of rxfreq and txfreq of the record that was read
StoredRx == LbcdToInt(SubSeq(data, 1, 4))
StoredTx == LbcdToInt(SubSeq(data, 5, 8))

\* C19: duplex decode of a non-empty record: equal stored values give no
\* duplex and offset 0, transmit above receive gives "+", below gives "-",
\* and the offset is ten times the absolute difference
C19_DuplexDecode ==
    (pc = "decoded" /\ raised = "none" /\ ~got.empty) =>
        /\ got.freq = StoredRx * 10
        /\ StoredRx = StoredTx => (got.duplex = "" /\ got.offset = 0)
        /\ StoredTx > StoredRx =>
             (got.duplex = "+" /\ got.offset = (StoredTx - StoredRx) * 10)
        /\ StoredTx < StoredRx =>
             (got.duplex = "-" /\ got.offset = (StoredRx - StoredTx) * 10)

\* rx 146.520 MHz with tx 146.920 MHz is read as "+" 400 kHz, and rx
\* above tx is read as "-"
C19_Witness ==
    /\ pc = "decoded"
    /\ raised = "none"
    /\ ~got.empty
    /\ StoredRx = 14652000
    /\ StoredTx = 14692000
    /\ got.freq = 146520000
    /\ got.duplex = "+"
    /\ got.offset = 400000

\* the raw rxfreq and txfreq bytes of the record just written
WrittenRx == GetRaw(mmap, MemBase(model, arg.number), 4)
WrittenTx == GetRaw(mmap, MemBase(model, arg.number) + 4, 4)

\* the transmit field set_memory is to store for the Memory
EncodedTx(mem) ==
    IF mem.duplex = "off" THEN Rep(255, 4)
    ELSE IF mem.duplex = "split" THEN IntToLbcd(mem.offset \div 10)
    ELSE IF mem.duplex = "+" THEN IntToLbcd((mem.freq + mem.offset) \div 10)
    ELSE IF mem.duplex = "-" THEN IntToLbcd((mem.freq - mem.offset) \div 10)
    ELSE IntToLbcd(mem.freq \div 10)

\* C20: duplex "off" writes four 0xFF bytes as the transmit field while the
\* receive field holds frequency/10, "split" writes offset/10, "+" and "-"
\* write (frequency +/- offset)/10, none writes frequency/10; so the
\* records of "off" and "split" differ from each other and from simplex
\* for every frequency and offset
C20_DuplexEncode ==
    (pc = "written" /\ ~arg.empty) =>
        /\ WrittenRx = IntToLbcd(arg.freq \div 10)
        /\ WrittenTx = EncodedTx(arg)
        /\ WrittenTx = Rep(255, 4) <=> arg.duplex = "off"
        /\ arg.duplex = "split" => WrittenTx # WrittenRx

\* C20, amended: as above, but the record of "split" differs from simplex
\* only when offset/10 is not frequency/10
C20_DuplexEncodeUnlessSame ==
    (pc = "written" /\ ~arg.empty) =>
        /\ WrittenRx = IntToLbcd(arg.freq \div 10)
        /\ WrittenTx = EncodedTx(arg)
        /\ WrittenTx = Rep(255, 4) <=> arg.duplex = "off"
        /\ (arg.duplex = "split" /\ arg.offset \div 10 # arg.freq \div 10) =>
             WrittenTx # WrittenRx
        /\ (arg.duplex = "split" /\ arg.offset \div 10 = arg.freq \div 10) =>
             WrittenTx = WrittenRx

\* a split channel at 462.5625 MHz transmitting on 467.5625 MHz
C20_Witness ==
    /\ pc = "written"
    /\ model = "RT21"
    /\ arg.duplex = "split"
    /\ arg.freq = 462562500
    /\ arg.offset = 467562500
    /\ WrittenRx = <<80, 98, 37, 70>>
    /\ WrittenTx = <<80, 98, 117, 70>>

---------------------------------------------------------------------------
(* Properties of the bits and bytes a channel write touches *)

\* bit k of a byte
BitOf(byte, k) == (byte \div Pow2(k)) % 2

\* number of skipflags bytes the channels of the model use
SkipLen(m) == (upper(m) + 7) \div 8

\* skipflags[j] of an image
SkipByte(m, img, j) == img[SkipBase(m) + j + 1]

\* every bit of skipflags other than bit k of byte j is the same in a and b
OtherSkipBitsSame(m, a, b, j, k) ==
    \A jj \in 0..(SkipLen(m) - 1) : \A kk \in 0..7 :
        (jj # j \/ kk # k) =>
            BitOf(SkipByte(m, a, jj), kk) = BitOf(SkipByte(m, b, jj), kk)

\* C21: on a model with skip flags, writing channel n with skip set sets
\* bit (n-1) mod 8 of skip byte (n-1) div 8, writing it with skip cleared
\* resets that bit, every other skip bit is untouched, and get_memory
\* reads the skip flag from that bit
C21_SkipBit ==
    [][(lastAct' = "set_memory" /\ skipflags(model)) =>
          LET n == arg'.number
              j == (n - 1) \div 8
              k == (n - 1) % 8
          IN  /\ BitOf(SkipByte(model, mmap', j), k)
                   = (IF arg'.skip = "S" THEN 1 ELSE 0)
              /\ OtherSkipBitsSame(model, mmap, mmap', j, k)
              /\ GetMemory(model, mmap', n).mem.skip = arg'.skip]_vars

\* C21, amended: the bits are scan-add flags, so writing channel n with
\* skip set resets the bit and writing it with skip cleared sets the bit
C21_ScanAddBit ==
    [][(lastAct' = "set_memory" /\ skipflags(model)) =>
          LET n == arg'.number
              j == (n - 1) \div 8
              k == (n - 1) % 8
          IN  /\ BitOf(SkipByte(model, mmap', j), k)
                   = (IF arg'.skip = "S" THEN 0 ELSE 1)
              /\ OtherSkipBitsSame(model, mmap, mmap', j, k)
              /\ GetMemory(model, mmap', n).mem.skip = arg'.skip]_vars

\* channel 9 of an RT21 written with skip set on a blank image: bit 0 of
\* skip byte 1 is reset and the other seven bits stay set
C21_Witness ==
    /\ pc = "written"
    /\ lastAct = "set_memory"
    /\ model = "RT21"
    /\ seed = 0
    /\ arg.number = 9
    /\ arg.skip = "S"
    /\ SkipByte(model, mmap, 1) = 254
    /\ SkipByte(model, mmap, 0) = 255

---------------------------------------------------------------------------
(* More properties of the settings decode *)

\* C22: out-of-range raw values of the direct-index settings are not
\* fatal: whatever the stored bytes are, get_settings does not raise for a
\* list index beyond the label list but returns a settings tree
C22_OutOfRangeNonFatal ==
    pc = "decoded" => raised # "IndexError"

---------------------------------------------------------------------------
(* Properties of the power level *)

\* the stored power field of channel idx: highpower, or txpower on RT29
PowerField(m) == Field(m, IF IsRT29(m) THEN "txpower" ELSE "highpower")
StoredPower == GetField(mmap, MemBase(model, idx), PowerField(model))

\* C23: on the two-level models the decoded power is entry [highpower] of
\* (Low, High) and encoding sets the bit iff the power is High; on RT29 the
\* stored 2, 0, 1 are Low, Mid, High and encoding writes the inverse, so
\* all three levels round-trip; a stored 3 leaves the power unset while the
\* rest of the channel is decoded and returned
C23_PowerLevel ==
    /\ (pc = "decoded" /\ raised = "none") =>
         IF IsRT29(model)
         THEN /\ StoredPower = 2 => got.power = "Low"
              /\ StoredPower = 0 => got.power = "Mid"
              /\ StoredPower = 1 => got.power = "High"
              /\ StoredPower = 3 =>
                   /\ got.power = ""
                   /\ ~got.empty
                   /\ got.freq = StoredRx * 10
                   /\ got = [GetMemory(model,
                                       SetField(mmap, MemBase(model, idx),
                                                PowerField(model), 1),
                                       idx).mem EXCEPT !.power = ""]
         ELSE got.power = <<"Low", "High">>[StoredPower + 1]
    /\ (pc = "rewritten" /\ arg.power # "") =>
         /\ IF IsRT29(model)
            THEN /\ arg.power = "Low" => StoredPower = 2
                 /\ arg.power = "Mid" => StoredPower = 0
                 /\ arg.power = "High" => StoredPower = 1
            ELSE StoredPower = 1 <=> arg.power = "High"
         /\ GetMemory(model, mmap, idx).mem.power = arg.power

\* an RT29 record whose power field holds 3 is read with the power unset
C23_Witness ==
    /\ pc = "decoded"
    /\ raised = "none"
    /\ model = "RT29_UHF"
    /\ StoredPower = 3
    /\ got.power = ""
    /\ got.freq = 146520000
    /\ got.mode = "FM"

\* the image positions of the record of channel n
RecordPositions(m, n) == (MemBase(m, n) + 1)..(MemBase(m, n) + RecLen)

\* the image position of the skip byte of channel n
SkipPosition(m, n) == SkipBase(m) + ((n - 1) \div 8) + 1

\* C24: set_memory(n) changes only the 16-byte record of channel n and,
\* for a non-empty write on a model with skip flags, the skip bit of
\* channel n; every other record, every other skip bit, the keys and
\* settings and all remaining bytes are unchanged, and an empty write
\* changes no skip bit
C24_WriteFrame ==
    [][lastAct' \in {"set_memory", "set_empty"} =>
          LET n == arg'.number
              bit == arg'.empty = FALSE /\ skipflags(model)
          IN  /\ DOMAIN mmap' = DOMAIN mmap
              /\ \A i \in DOMAIN mmap :
                   (i \notin RecordPositions(model, n)
                      /\ ~(bit /\ i = SkipPosition(model, n))) =>
                        mmap'[i] = mmap[i]
              /\ bit =>
                   \A k \in 0..7 :
                     k # (n - 1) % 8 =>
                       BitOf(mmap'[SkipPosition(model, n)], k)
                         = BitOf(mmap[SkipPosition(model, n)], k)]_vars

\* channel 17 of an RB17A written empty: the first record of himems holds
\* the frequency of the channel and the skip bytes are those of the image
\* before
C24_Witness ==
    /\ pc = "written"
    /\ lastAct = "set_empty"
    /\ model = "RB17A"
    /\ seed = 1
    /\ arg.number = 17
    /\ GetRaw(mmap, 512, 4) = IntToLbcd(GMRS_FREQ[17])
    /\ GetRaw(mmap, SkipBase(model), 4)
         = GetRaw(CodecImage(model, seed), SkipBase(model), 4)
    /\ mmap # CodecImage(model, seed)

---------------------------------------------------------------------------
(* Properties of the image a download leaves *)

\* C25: a failed download leaves the Memory Image as it was before the
\* call, whatever the step that failed; the image is replaced only after
\* every block has been read and programming mode has been exited without
\* an error
C25_FailedDownloadKeepsImage ==
    op = "sync_in" =>
        IF pc = "done" /\ result = "ok"
        THEN /\ mmap = data
             /\ Len(data) = memsize(model)
             /\ idx > Len(DownloadAddrs(model))
             /\ lastAct = "exit"
             /\ raised = "none"
             /\ CmdIdx("E") # {}
        ELSE mmap = LocalImage(model, seed)

\* a download that failed on a block after others had been read: the
\* blocks read are dropped and the image is the one held before
C25_Witness ==
    /\ op = "sync_in"
    /\ pc = "done"
    /\ result = "RadioError"
    /\ lastAct = "read"
    /\ idx > 1
    /\ data # <<>>
    /\ mmap = LocalImage(model, seed)
    /\ data # SubSeq(mmap, 1, Len(data))

====
